---- MODULE Spec2Model ----
(***************************************************************************)
(* Model of lotio's text auto-fit and layout-override engine               *)
(* (src/src/text) as a state machine.                                      *)
(*                                                                         *)
(* Numbers: every float of the program is modelled as an integer count of  *)
(* 1/Unit.  Unit = 10 * 2^15, so that one decimal place (the precision the *)
(* mutator prints with) and fifteen exact halvings of an integer (the      *)
(* binary searches) are both representable.  The float literal 0.1f is     *)
(* Tenth.                                                                  *)
(*                                                                         *)
(* Text: a string is a sequence of characters; the characters that the     *)
(* code treats specially have names (CR, LF, ETX, TAB, BS = backslash,     *)
(* QT = double quote); every other character is itself.                    *)
(***************************************************************************)
EXTENDS Integers, Sequences, FiniteSets, TLC

VARIABLES
    pc,           \* position of the modelled call: "call" before, "done" after
    fontInfo,     \* FontInfo the solver is called with (size, text)
    config,       \* LayerOverride the solver is called with (minSize, maxSize)
    text,         \* text argument of the call
    targetWidth,  \* target width argument of calculateOptimalFontSize
    mode,         \* TextMeasurementMode
    optimalSize,  \* return value of calculateOptimalFontSize
    search,       \* the locals of calculateOptimalFontSize while it runs step
                  \* by step, and the number of probes its loop has made
    json_data,    \* the animation document, a sequence of tokens
    original,     \* the document before the call
    layers,       \* the layers the document was built from, in document order
    argLayerName, \* layerName argument of the mutator calls
    argNewSize,   \* newSize argument of modifyTextLayerInJson
    argWidthDiff, \* widthDiff argument of adjustTextAnimatorPosition
    file,         \* the override file: configPath, isOpen (whether a file
                  \* opens at that path), and the text entries and image
                  \* entries written in the file the caller means
    layerOverrides, \* the map parseLayerOverrides returned
    imageLayers,    \* the map parseImageLayers returned
    modifications,  \* the LayerModification vector of processLayerOverrides
    solverCalls,    \* history: the solver call made for each modification
    render,         \* the state of one renderFrames call: its threads, the
                    \* frame buffer, the counters and the value returned
    cli,            \* the state of one run of main: argv, the position of
                    \* parseArguments, what was printed and the exit status
    wasm            \* the state behind the WASM interface: g_context, and
                    \* the calls made on the interface

solverVars == <<fontInfo, config, targetWidth, mode, optimalSize, search>>
docVars == <<json_data, original, layers, argLayerName, argNewSize, argWidthDiff>>
procVars == <<file, layerOverrides, imageLayers, modifications, solverCalls>>
coreVars == <<render, cli, wasm>>
vars == <<pc, text, solverVars, docVars, procVars, coreVars>>

----------------------------------------------------------------------------
(* Fixed-point numbers *)

Unit == 10 * 32768
Tenth == Unit \div 10
Pt(n) == n * Unit

Abs(x) == IF x < 0 THEN -x ELSE x
Min(a, b) == IF a <= b THEN a ELSE b
Max(a, b) == IF a >= b THEN a ELSE b

\* Body with its parameter bound to value: a value that is computed once
\* and used under a name
Bind(value, Body(_)) == Body(value)

\* smallest whole number of pixels covering w
CeilPx(w) == ((w + Unit - 1) \div Unit) * Unit

----------------------------------------------------------------------------
(* Characters *)

CR == "CR"
LF == "LF"
ETX == "ETX"
TAB == "TAB"
BS == "BS"
QT == "QT"

----------------------------------------------------------------------------
(* Text measurement: src/src/text/font_utils.cpp *)

\* width of one shaped line at fontSize: every glyph advances one em
LineBoundsWidth(fontSize, line) == Len(line) * fontSize

\* PIXEL_PERFECT: rightmost minus leftmost painted pixel, plus one, plus a
\* one pixel safety margin; the bounds width when nothing is painted
measureRenderedTextWidth(boundsWidth) ==
    IF boundsWidth <= 0 THEN boundsWidth ELSE CeilPx(boundsWidth) + Unit

LineWidth(fontSize, line, m) ==
    IF m = "PIXEL_PERFECT"
    THEN measureRenderedTextWidth(LineBoundsWidth(fontSize, line))
    ELSE LineBoundsWidth(fontSize, line)

\* the loop over the characters of text: i is the index of the next
\* character, currentLine the line collected so far, maxWidth the maximum
RECURSIVE MeasureLoop(_, _, _, _, _, _)
MeasureLoop(fontSize, t, m, i, currentLine, maxWidth) ==
    IF i > Len(t)
    THEN IF currentLine # <<>>
         THEN Max(maxWidth, LineWidth(fontSize, currentLine, m))
         ELSE maxWidth
    ELSE IF t[i] = CR \/ t[i] = LF
         THEN MeasureLoop(fontSize, t, m,
                  IF t[i] = CR /\ i + 1 <= Len(t) /\ t[i + 1] = LF
                  THEN i + 2 ELSE i + 1,
                  <<>>,
                  IF currentLine # <<>>
                  THEN Max(maxWidth, LineWidth(fontSize, currentLine, m))
                  ELSE maxWidth)
         ELSE MeasureLoop(fontSize, t, m, i + 1, Append(currentLine, t[i]), maxWidth)

measureTextWidth(fontSize, t, m) == MeasureLoop(fontSize, t, m, 1, <<>>, 0)

----------------------------------------------------------------------------
(* Optimal-size solver: src/src/text/text_sizing.cpp *)

UpIterations == 10
DownIterations == 15
NoFit == -Unit

\* the upward loop, lines 35-46: i iterations done
RECURSIVE UpLoop(_, _, _, _, _, _, _)
UpLoop(i, min, max, bestSize, t, target, m) ==
    IF i >= UpIterations THEN bestSize
    ELSE LET testSize == (min + max) \div 2
             testWidth == measureTextWidth(testSize, t, m)
         IN IF testWidth <= target
            THEN UpLoop(i + 1, testSize, max, testSize, t, target, m)
            ELSE UpLoop(i + 1, min, testSize, bestSize, t, target, m)

\* the downward loop, lines 68-86, with its early exit
RECURSIVE DownLoop(_, _, _, _, _, _, _)
DownLoop(i, min, max, bestSize, t, target, m) ==
    IF i >= DownIterations THEN bestSize
    ELSE LET testSize == (min + max) \div 2
             testWidth == measureTextWidth(testSize, t, m)
             fits == testWidth <= target
             min2 == IF fits THEN testSize ELSE min
             max2 == IF fits THEN max ELSE testSize
             best2 == IF fits THEN testSize ELSE bestSize
         IN IF (max2 - min2) < Tenth
            THEN best2
            ELSE DownLoop(i + 1, min2, max2, best2, t, target, m)

\* a solver without the check of the width at minSize (lines 52-61)
calculateOptimalFontSize_NoMinCheck(fi, cfg, t, target, m) ==
    IF target <= 0 THEN fi.size
    ELSE LET currentSize == fi.size
             currentWidth == measureTextWidth(currentSize, t, m)
         IN IF currentWidth <= target
            THEN Min(UpLoop(0, currentSize, cfg.maxSize, currentSize, t, target, m), cfg.maxSize)
            ELSE DownLoop(0, cfg.minSize, currentSize, cfg.minSize, t, target, m)

calculateOptimalFontSize(fi, cfg, t, target, m) ==
    IF target <= 0 THEN fi.size
    ELSE LET currentSize == fi.size
             currentWidth == measureTextWidth(currentSize, t, m)
         IN IF currentWidth <= target
            THEN Min(UpLoop(0, currentSize, cfg.maxSize, currentSize, t, target, m),
                     cfg.maxSize)
            ELSE IF measureTextWidth(cfg.minSize, t, m) > target
                 THEN NoFit
                 ELSE DownLoop(0, cfg.minSize, currentSize, cfg.minSize, t, target, m)

\* The same function one step at a time.  The locals are a record: kind is
\* the branch taken ("up": lines 29-48, "down": lines 49-96, "none": a
\* return before either loop), running whether the loop is still going, i
\* the loop counter, result the value returned; probes counts the
\* measurements made inside the loop.
Locals(kind, min, max, bestSize) ==
    [kind |-> kind, running |-> TRUE, i |-> 0, min |-> min, max |-> max,
     bestSize |-> bestSize, probes |-> 0, result |-> 0]

ReturnedEarly(result) ==
    [kind |-> "none", running |-> FALSE, i |-> 0, min |-> 0, max |-> 0,
     bestSize |-> 0, probes |-> 0, result |-> result]

\* lines 14-33 and 49-66: up to the first test of a loop condition
SearchStart(fi, cfg, t, target, m) ==
    IF target <= 0 THEN ReturnedEarly(fi.size)
    ELSE IF measureTextWidth(fi.size, t, m) <= target
    THEN Locals("up", fi.size, cfg.maxSize, fi.size)
    ELSE IF measureTextWidth(cfg.minSize, t, m) > target
    THEN ReturnedEarly(NoFit)
    ELSE Locals("down", cfg.minSize, fi.size, cfg.minSize)

\* lines 36-45 and 69-80: the body of either loop
Probe(s, testSize, fits) ==
    [s EXCEPT !.i = s.i + 1,
              !.probes = s.probes + 1,
              !.min = IF fits THEN testSize ELSE s.min,
              !.max = IF fits THEN s.max ELSE testSize,
              !.bestSize = IF fits THEN testSize ELSE s.bestSize]

\* lines 35-48: one iteration of the upward loop, and the return when the
\* loop condition fails after it
UpAfter(after, cfg) ==
    IF after.i < UpIterations THEN after
    ELSE [after EXCEPT !.running = FALSE,
                       !.result = Min(after.bestSize, cfg.maxSize)]

UpStep(s, cfg, t, target, m) ==
    Bind((s.min + s.max) \div 2, LAMBDA testSize :
    UpAfter(Probe(s, testSize, measureTextWidth(testSize, t, m) <= target), cfg))

\* a downward loop without the early exit of lines 83-85
DownAfter_NoEarlyExit(after) ==
    IF after.i < DownIterations
    THEN after
    ELSE [after EXCEPT !.running = FALSE, !.result = after.bestSize]

\* lines 68-95: one iteration of the downward loop, and the return when it
\* breaks or when the loop condition fails after it
DownAfter(after) ==
    IF ~((after.max - after.min) < Tenth) /\ after.i < DownIterations
    THEN after
    ELSE [after EXCEPT !.running = FALSE, !.result = after.bestSize]

DownStep(s, t, target, m) ==
    Bind((s.min + s.max) \div 2, LAMBDA testSize :
    DownAfter(Probe(s, testSize, measureTextWidth(testSize, t, m) <= target)))

----------------------------------------------------------------------------
(* Strings: src/src/utils/string_utils.cpp *)

\* does s hold the characters of from at index i
HasAt(s, from, i) ==
    /\ i + Len(from) - 1 <= Len(s)
    /\ \A j \in 1..Len(from) : s[i + j - 1] = from[j]

\* the loop of replaceAllInPlace: pos is the index the next find starts at;
\* the replacement is not searched again
RECURSIVE ReplaceAllFrom(_, _, _, _)
ReplaceAllFrom(s, from, to, pos) ==
    IF pos > Len(s) THEN <<>>
    ELSE IF HasAt(s, from, pos)
         THEN to \o ReplaceAllFrom(s, from, to, pos + Len(from))
         ELSE <<s[pos]>> \o ReplaceAllFrom(s, from, to, pos + 1)

\* a replacement of the first occurrence only
replaceAllInPlace_FirstOnly(s, from, to) ==
    IF from = <<>> \/ \A i \in 1..Len(s) : ~HasAt(s, from, i) THEN s
    ELSE Bind(CHOOSE i \in 1..Len(s) :
                 HasAt(s, from, i) /\ \A j \in 1..(i - 1) : ~HasAt(s, from, j),
              LAMBDA at :
         SubSeq(s, 1, at - 1) \o to \o SubSeq(s, at + Len(from), Len(s)))

replaceAllInPlace(s, from, to) ==
    IF from = <<>> THEN s ELSE ReplaceAllFrom(s, from, to, 1)

replaceCharInPlace(s, from, to) ==
    [i \in 1..Len(s) |-> IF s[i] = from THEN to ELSE s[i]]

\* the six characters of the escape sequence for U+0003, and the escapes
\* the mutator writes
EscapedETX == <<BS, "u", "0", "0", "0", "3">>
EscapedCR == <<BS, "u", "0", "0", "0", "D">>

\* src/src/text/json_manipulation.cpp, lines 496-509, on the characters of
\* the document: the escape sequence of U+0003 becomes the two characters
\* backslash and r, the character U+0003 becomes a carriage return
normalizeLottieTextNewlines(json) ==
    replaceCharInPlace(replaceAllInPlace(json, EscapedETX, <<BS, "r">>), ETX, CR)

----------------------------------------------------------------------------
(* The animation document: a sequence of tokens.                           *)
(*   k = "str": a quoted string without special characters (a key, a name) *)
(*              s its content, n its length in bytes with the quotes;      *)
(*   k = "c"  : one character: punctuation, or a character of a text value *)
(*              (the text value's own quotes are QT characters);           *)
(*   k = "num": an unsigned number, n its value; a negative number is the  *)
(*              character "-" and a number.                                *)
(* Documents are minified: no whitespace between tokens.                   *)

S(s, n) == [k |-> "str", s |-> s, n |-> n]
K(s) == S(s, IF s \in {"nm", "ty", "ks", "sz", "id"} THEN 4
             ELSE IF s \in {"layers", "shapes", "assets"} THEN 8 ELSE 3)
C(ch) == [k |-> "c", s |-> ch, n |-> 0]
N(v) == [k |-> "num", s |-> "", n |-> v]
Chars(t) == [i \in 1..Len(t) |-> C(t[i])]
Quoted(t) == <<C(QT)>> \o Chars(t) \o <<C(QT)>>
Signed(v) == IF v < 0 THEN <<C("-"), N(-v)>> ELSE <<N(v)>>

IsStr(tok, s) == tok.k = "str" /\ tok.s = s
IsCh(tok, ch) == tok.k = "c" /\ tok.s = ch
IsDigit(tok) == tok.k = "num"
\* a token whose first byte is a double quote
IsQuote(tok) == tok.k = "str" \/ IsCh(tok, QT)

TokLen(tok) == IF tok.k = "str" THEN tok.n ELSE 1

\* the least element of a set of indexes; 0 (npos) for the empty set
First(indexes) ==
    IF indexes = {} THEN 0 ELSE CHOOSE i \in indexes : \A j \in indexes : i <= j

\* bytes from the start of token a to the start of token b (a <= b)
RECURSIVE Bytes(_, _, _)
Bytes(json, a, b) ==
    IF a >= b THEN 0
    ELSE IF b = a + 1 THEN TokLen(json[a])
    ELSE LET mid == (a + b) \div 2
         IN Bytes(json, a, mid) + Bytes(json, mid, b)

\* std::string::find: index of the first token at or after from that is the
\* quoted string s / the character ch / a double quote; 0 is npos.  The
\* search goes through the document Stride tokens at a time.
Stride == 2 ^ 4

RECURSIVE FindStr(_, _, _)
FindStr(json, s, from) ==
    IF from < 1 \/ from > Len(json) THEN 0
    ELSE LET to == Min(from + Stride - 1, Len(json))
             hit == First({i \in from..to : IsStr(json[i], s)})
         IN IF hit # 0 THEN hit ELSE FindStr(json, s, to + 1)

RECURSIVE FindCh(_, _, _)
FindCh(json, ch, from) ==
    IF from < 1 \/ from > Len(json) THEN 0
    ELSE LET to == Min(from + Stride - 1, Len(json))
             hit == First({i \in from..to : IsCh(json[i], ch)})
         IN IF hit # 0 THEN hit ELSE FindCh(json, ch, to + 1)

RECURSIVE FindQuote(_, _)
FindQuote(json, from) ==
    IF from < 1 \/ from > Len(json) THEN 0
    ELSE LET to == Min(from + Stride - 1, Len(json))
             hit == First({i \in from..to : IsQuote(json[i])})
         IN IF hit # 0 THEN hit ELSE FindQuote(json, to + 1)

\* number of tokens a..b that are the character ch
CountCh(json, ch, a, b) == Cardinality({i \in a..b : IsCh(json[i], ch)})

\* the bracket counting loops: from the token start on, while fewer than
\* limit bytes were passed, the count goes up at open and down at close; the
\* index of the close where it returns to 0, or dflt when the loop ends
\* first.  The loop is followed from one close to the next: prev is the
\* last token looked at, count the count after it.
RECURSIVE CountFrom(_, _, _, _, _, _, _, _)
CountFrom(json, open, close, start, prev, count, limit, dflt) ==
    LET next == FindCh(json, close, prev + 1)
    IN IF next = 0 \/ ~(Bytes(json, start, next) < limit) THEN dflt
       ELSE LET count2 == count + CountCh(json, open, prev + 1, next) - 1
            IN IF count2 = 0 THEN next
               ELSE CountFrom(json, open, close, start, next, count2, limit, dflt)

CountLoop(json, open, close, start, limit, dflt) ==
    CountFrom(json, open, close, start, start - 1, 0, limit, dflt)

\* std::fixed << std::setprecision(1): nearest tenth, exact ties to even
Round1(v) ==
    LET a == Abs(v)
        q == a \div Tenth
        r == a % Tenth
        up == 2 * r > Tenth \/ (2 * r = Tenth /\ q % 2 = 1)
        m == (IF up THEN q + 1 ELSE q) * Tenth
    IN IF v < 0 THEN -m ELSE m

----------------------------------------------------------------------------
(* Locating a layer by name *)

\* A layer name of the model is one character.  escapeRegex puts a backslash
\* before each of the twelve characters it lists; a pattern is the sequence
\* of characters handed to std::regex.
RegexSpecials == {BS, "^", "$", ".", "|", "?", "*", "+", "(", ")", "[", "{"}

escapeRegex(str) == IF str \in RegexSpecials THEN <<BS, str>> ELSE <<str>>

\* the pattern built from the name as it is
Unescaped(str) == <<str>>

\* std::regex_search with the pattern "nm"\s*:\s*"<pattern>": an escaped
\* character and an ordinary character match themselves, an unescaped dot
\* matches any character (the names of the model hold no other
\* metacharacter)
RegexMatches(pattern, name) ==
    IF Len(pattern) = 2 THEN pattern[1] = BS /\ pattern[2] = name
    ELSE IF pattern[1] = "." THEN TRUE
    ELSE pattern[1] = name

NameAt(json, i, pattern) ==
    /\ i + 2 <= Len(json)
    /\ IsStr(json[i], "nm")
    /\ IsCh(json[i + 1], ":")
    /\ json[i + 2].k = "str"
    /\ RegexMatches(pattern, json[i + 2].s)

RegexSearchName(json, pattern) ==
    First({i \in 1..Len(json) : NameAt(json, i, pattern)})

\* the plain string search both the extractor and the mutator fall back to:
\* every "nm" that starts more than 100 bytes before the end (the unsigned
\* subtraction wraps for a shorter document)
RECURSIVE FallbackSearchName(_, _, _)
FallbackSearchName(json, layerName, nmPos) ==
    LET length == Bytes(json, 1, Len(json) + 1)
    IN IF nmPos = 0 \/ ~(length < 100 \/ Bytes(json, 1, nmPos) < length - 100)
       THEN 0
       ELSE LET colonPos == FindCh(json, ":", nmPos)
                nameStart == IF colonPos # 0 /\ Bytes(json, nmPos, colonPos) < 20
                             THEN FindQuote(json, colonPos) ELSE 0
            IN IF nameStart # 0 /\ IsStr(json[nameStart], layerName)
               THEN nmPos
               ELSE FallbackSearchName(json, layerName,
                                       FindStr(json, "nm", nmPos + 1))

----------------------------------------------------------------------------
(* Field extractor: src/src/text/font_utils.cpp *)

\* lines 250-286: three attempts to find the layer name
ExtractorLayerNamePos(json, layerName) ==
    Bind(RegexSearchName(json, escapeRegex(layerName)), LAMBDA escaped :
    IF escaped # 0 THEN escaped
    ELSE Bind(RegexSearchName(json, Unescaped(layerName)), LAMBDA simple :
         IF simple # 0 THEN simple
         ELSE FallbackSearchName(json, layerName, FindStr(json, "nm", 1))))

\* first "ty" token that starts at or after byte offset from and ends at or
\* before byte offset to; offsets are counted from the document start
FindTy(json, from, to) ==
    First({i \in 1..Len(json) :
             /\ IsStr(json[i], "ty")
             /\ Bytes(json, 1, i) >= from
             /\ Bytes(json, 1, i + 1) <= to})

\* lines 293-326: is the layer at layerNamePos a text layer ("ty":5)
IsTextLayer(json, layerNamePos) ==
    Bind(Bytes(json, 1, layerNamePos), LAMBDA nameOff :
    Bind(FindTy(json, IF nameOff > 200 THEN nameOff - 200 ELSE 0, nameOff + 3000),
         LAMBDA before :
    Bind(IF before = 0 \/ Bytes(json, 1, before) > nameOff + 500
         THEN FindTy(json, nameOff, nameOff + 3000)
         ELSE before, LAMBDA tyPos :
    Bind(IF tyPos = 0 THEN 0 ELSE FindCh(json, ":", tyPos), LAMBDA colonPos :
       /\ tyPos # 0
       /\ colonPos # 0
       /\ Bytes(json, 1, colonPos + 1) <= nameOff + 3000
       /\ Bytes(json, tyPos, colonPos) < 30
       /\ colonPos + 1 <= Len(json)
       /\ json[colonPos + 1] = N(5 * Unit)))))

\* is there a "d" wholly within the bytes that start at token i
HasDNearby(json, i, bytes) ==
    \E j \in i..Len(json) : IsStr(json[j], "d") /\ Bytes(json, i, j + 1) <= bytes

\* lines 337-370: the "t" that holds the text data: a numeric "t" (a
\* keyframe time) is skipped; 0 when the search leaves the window
RECURSIVE FindTextData(_, _, _)
FindTextData(json, layerNamePos, textDataPos) ==
    IF textDataPos = 0 \/ ~(Bytes(json, layerNamePos, textDataPos) < 5000) THEN 0
    ELSE Bind(FindCh(json, ":", textDataPos), LAMBDA colonPos :
         IF /\ colonPos # 0
            /\ Bytes(json, textDataPos, colonPos) < 10
            /\ colonPos + 1 <= Len(json)
            /\ IsCh(json[colonPos + 1], "{")
            /\ HasDNearby(json, textDataPos, 100)
         THEN textDataPos
         ELSE FindTextData(json, layerNamePos, FindStr(json, "t", textDataPos + 1)))

\* lines 288-403: where the extractor finds the text style object of the
\* layer: [ok, open, close], the indexes of its braces
ExtractorLocate(json, layerName) ==
    Bind([ok |-> FALSE, open |-> 0, close |-> 0], LAMBDA none :
    Bind(ExtractorLayerNamePos(json, layerName), LAMBDA layerNamePos :
    IF layerNamePos = 0 THEN none ELSE
    IF ~IsTextLayer(json, layerNamePos) THEN none ELSE
    Bind(FindTextData(json, layerNamePos, FindStr(json, "t", layerNamePos)),
         LAMBDA textDataPos :
    IF textDataPos = 0 THEN none ELSE
    Bind(FindStr(json, "s", textDataPos), LAMBDA textStylePos :
    IF textStylePos = 0 \/ Bytes(json, textDataPos, textStylePos) > 1000 THEN none ELSE
    Bind(FindCh(json, "{", textStylePos), LAMBDA styleOpenBrace :
    IF styleOpenBrace = 0 THEN none ELSE
    [ok |-> TRUE, open |-> styleOpenBrace,
     close |-> CountLoop(json, "{", "}", styleOpenBrace, 500, styleOpenBrace)])))))

\* std::regex_search of "<key>"\s*:\s*([0-9]+\.?[0-9]*): index of the number
SearchNumberField(obj, key) ==
    LET at == First({i \in 1..Len(obj) - 2 :
                       IsStr(obj[i], key) /\ IsCh(obj[i + 1], ":") /\ IsDigit(obj[i + 2])})
    IN IF at = 0 THEN 0 ELSE at + 2

\* the characters [^"]+ matches from index i on
RECURSIVE NoQuoteRun(_, _)
NoQuoteRun(obj, i) ==
    IF i > Len(obj) \/ obj[i].k # "c" \/ obj[i].s = QT THEN <<>>
    ELSE <<obj[i].s>> \o NoQuoteRun(obj, i + 1)

\* std::regex_search of "t"\s*:\s*"([^"]+)" matches at index i
TextFieldAt(obj, i) ==
    LET run == NoQuoteRun(obj, i + 3)
        after == i + 3 + Len(run)
    IN /\ IsStr(obj[i], "t")
       /\ IsCh(obj[i + 1], ":")
       /\ IsCh(obj[i + 2], QT)
       /\ run # <<>>
       /\ after <= Len(obj)
       /\ IsQuote(obj[after])

\* the captured characters of the first match, <<>> when nothing matches
SearchTextField(obj) ==
    LET at == First({i \in 1..Len(obj) - 2 : TextFieldAt(obj, i)})
    IN IF at = 0 THEN <<>> ELSE NoQuoteRun(obj, at + 3)

\* std::regex_search of "f"\s*:\s*"([^"]+)": the font name, "" without match
SearchFontField(obj) ==
    LET at == First({i \in 1..Len(obj) - 2 :
                       IsStr(obj[i], "f") /\ IsCh(obj[i + 1], ":") /\ obj[i + 2].k = "str"})
    IN IF at = 0 THEN "" ELSE obj[at + 2].s

\* std::regex_search of "sz"\s*:\s*\[\s*(number)\s*,\s*(number): index of
\* the first number
SearchSz(obj) ==
    LET at == First({i \in 1..Len(obj) - 5 :
                       /\ IsStr(obj[i], "sz") /\ IsCh(obj[i + 1], ":")
                       /\ IsCh(obj[i + 2], "[") /\ IsDigit(obj[i + 3])
                       /\ IsCh(obj[i + 4], ",") /\ IsDigit(obj[i + 5])})
    IN IF at = 0 THEN 0 ELSE at + 3

\* lines 425-433: line breaks of the extracted text become CR
NormalizeExtracted(t) ==
    LET t1 == replaceAllInPlace(t, <<BS, "r">>, <<CR>>)
        t2 == replaceAllInPlace(t1, <<BS, "n">>, <<CR>>)
        t3 == replaceAllInPlace(t2, EscapedETX, <<CR>>)
    IN replaceCharInPlace(replaceCharInPlace(t3, ETX, CR), LF, CR)

\* FontInfo info; declares the floats without a value: garbage is what the
\* fields size and textBoxWidth hold until a match assigns them
EmptyFontInfo(garbage) ==
    [name |-> "", size |-> garbage, text |-> <<>>, textBoxWidth |-> garbage]

extractFontInfoFromJson(json, layerName, garbage) ==
    Bind(ExtractorLocate(json, layerName), LAMBDA loc :
    IF ~loc.ok \/ ~(loc.close > loc.open) THEN EmptyFontInfo(garbage)
    ELSE Bind(SubSeq(json, loc.open, loc.close), LAMBDA textStyleJson :
         Bind(SearchNumberField(textStyleJson, "s"), LAMBDA sizeAt :
         Bind(SearchSz(textStyleJson), LAMBDA szAt :
            [name |-> SearchFontField(textStyleJson),
             size |-> IF sizeAt # 0 THEN textStyleJson[sizeAt].n ELSE garbage,
             text |-> NormalizeExtracted(SearchTextField(textStyleJson)),
             textBoxWidth |-> IF szAt # 0 THEN textStyleJson[szAt].n ELSE garbage]))))

----------------------------------------------------------------------------
(* Document mutator: src/src/text/json_manipulation.cpp *)

\* lines 196-222
MutatorLayerNamePos(json, layerName) ==
    Bind(RegexSearchName(json, Unescaped(layerName)), LAMBDA byRegex :
    IF byRegex # 0 THEN byRegex
    ELSE FallbackSearchName(json, layerName, FindStr(json, "nm", 1)))

\* lines 292-313: the first "s" of the array element that is followed by ':'
\* and '{'; 0 when there is none
RECURSIVE FindStyleObject(_, _, _)
FindStyleObject(json, searchStart, searchEnd) ==
    IF ~(searchStart < searchEnd) THEN 0
    ELSE Bind(FindStr(json, "s", searchStart), LAMBDA sPos :
         IF sPos = 0 \/ sPos >= searchEnd THEN 0
         ELSE Bind(FindCh(json, ":", sPos), LAMBDA colonPos :
              IF /\ colonPos # 0
                 /\ Bytes(json, sPos, colonPos) < 10
                 /\ colonPos < searchEnd
                 /\ colonPos + 1 <= Len(json)
                 /\ IsCh(json[colonPos + 1], "{")
              THEN colonPos + 1
              ELSE FindStyleObject(json, sPos + 1, searchEnd)))

\* lines 193-342: where the mutator finds the text style object of the
\* layer: [ok, open, close], the indexes of its braces
MutatorLocate(json, layerName) ==
    Bind([ok |-> FALSE, open |-> 0, close |-> 0], LAMBDA none :
    Bind(MutatorLayerNamePos(json, layerName), LAMBDA layerNamePos :
    IF layerNamePos = 0 THEN none ELSE
    Bind(FindStr(json, "t", layerNamePos), LAMBDA textDataPos :
    IF textDataPos = 0 \/ Bytes(json, layerNamePos, textDataPos) > 5000 THEN none ELSE
    Bind(FindStr(json, "d", textDataPos), LAMBDA dPos :
    IF dPos = 0 \/ Bytes(json, textDataPos, dPos) > 500 THEN none ELSE
    Bind(FindStr(json, "k", dPos), LAMBDA kPos :
    IF kPos = 0 \/ Bytes(json, dPos, kPos) > 200 THEN none ELSE
    Bind(FindCh(json, "[", kPos), LAMBDA arrayOpen :
    IF arrayOpen = 0 THEN none ELSE
    Bind(FindCh(json, "{", arrayOpen), LAMBDA elemOpen :
    IF elemOpen = 0 THEN none ELSE
    Bind(FindStyleObject(json, elemOpen,
                         CountLoop(json, "{", "}", elemOpen, 1000, elemOpen)),
         LAMBDA styleOpenBrace :
    IF styleOpenBrace = 0 THEN none ELSE
    Bind(CountLoop(json, "{", "}", styleOpenBrace, 2000, styleOpenBrace),
         LAMBDA styleCloseBrace :
    IF styleCloseBrace <= styleOpenBrace THEN none
    ELSE [ok |-> TRUE, open |-> styleOpenBrace, close |-> styleCloseBrace])))))))))

\* lines 353-388: the number after the first "s" of the style object is
\* replaced by newSize printed with one decimal
ReplaceSize(textStyleJson, newSize) ==
    Bind(FindStr(textStyleJson, "s", 1), LAMBDA sFieldPos :
    Bind(IF sFieldPos = 0 THEN 0 ELSE FindCh(textStyleJson, ":", sFieldPos),
         LAMBDA colonPos :
    IF /\ sFieldPos # 0
       /\ colonPos # 0
       /\ Bytes(textStyleJson, sFieldPos, colonPos) < 10
       /\ colonPos + 1 <= Len(textStyleJson)
       /\ IsDigit(textStyleJson[colonPos + 1])
    THEN SubSeq(textStyleJson, 1, colonPos)
         \o Signed(Round1(newSize))
         \o SubSeq(textStyleJson, colonPos + 2, Len(textStyleJson))
    ELSE textStyleJson))

\* lines 393-397: line breaks of the new text become CR
ProcessText(newText) ==
    replaceCharInPlace(
        replaceCharInPlace(replaceAllInPlace(newText, EscapedETX, <<CR>>), ETX, CR),
        LF, CR)

\* an escaping that handles the quotes before the backslashes
EscapeText_QuotesFirst(processedText) ==
    replaceAllInPlace(
        replaceAllInPlace(
            replaceAllInPlace(
                replaceAllInPlace(processedText, <<QT>>, <<BS, QT>>),
                <<BS>>, <<BS, BS>>),
            <<CR>>, EscapedCR),
        <<TAB>>, <<BS, "t">>)

\* lines 400-409: escaping for a JSON string
EscapeText(processedText) ==
    replaceAllInPlace(
        replaceAllInPlace(
            replaceAllInPlace(
                replaceAllInPlace(processedText, <<BS>>, <<BS, BS>>),
                <<QT>>, <<BS, QT>>),
            <<CR>>, EscapedCR),
        <<TAB>>, <<BS, "t">>)

\* lines 422-428: the first double quote after quoteStart that no backslash
\* precedes; past the end when there is none
ClosingQuote(textStyleJson, quoteEnd) ==
    Bind(First({i \in quoteEnd..Len(textStyleJson) :
                  /\ IsQuote(textStyleJson[i])
                  /\ ~IsCh(textStyleJson[i - 1], BS)}), LAMBDA found :
    IF found = 0 THEN Len(textStyleJson) + 1 ELSE found)

\* lines 411-449: the string after the first "t" of the style object is
\* replaced by the escaped text
ReplaceText(textStyleJson, escapedText) ==
    Bind(FindStr(textStyleJson, "t", 1), LAMBDA tFieldPos :
    Bind(IF tFieldPos = 0 THEN 0 ELSE FindCh(textStyleJson, ":", tFieldPos),
         LAMBDA colonPos :
    Bind(IF colonPos = 0 THEN 0 ELSE FindQuote(textStyleJson, colonPos),
         LAMBDA quoteStart :
    IF /\ tFieldPos # 0
       /\ colonPos # 0
       /\ Bytes(textStyleJson, tFieldPos, colonPos) < 10
       /\ quoteStart # 0
       /\ Bytes(textStyleJson, colonPos, quoteStart) < 20
    THEN IF textStyleJson[quoteStart].k = "str"
         \* the quotes found are those of a key or name: its content goes
         THEN SubSeq(textStyleJson, 1, quoteStart - 1)
              \o Quoted(escapedText)
              \o SubSeq(textStyleJson, quoteStart + 1, Len(textStyleJson))
         ELSE Bind(ClosingQuote(textStyleJson, quoteStart + 1), LAMBDA quoteEnd :
              IF quoteEnd <= Len(textStyleJson)
              THEN SubSeq(textStyleJson, 1, quoteStart)
                   \o Chars(escapedText)
                   \o SubSeq(textStyleJson, quoteEnd, Len(textStyleJson))
              ELSE textStyleJson)
    ELSE textStyleJson)))

modifyTextLayerInJson(json, layerName, newText, newSize) ==
    Bind(MutatorLocate(json, layerName), LAMBDA loc :
    IF ~loc.ok THEN json
    ELSE SubSeq(json, 1, loc.open)
         \o ReplaceText(ReplaceSize(SubSeq(json, loc.open + 1, loc.close - 1), newSize),
                        EscapeText(ProcessText(newText)))
         \o SubSeq(json, loc.close, Len(json)))

\* the tokens of json that lie wholly within the bytes [start, start + bytes)
SectionEnd(json, start, bytes) ==
    IF Bytes(json, start, Len(json) + 1) <= bytes THEN Len(json)
    ELSE First({j \in start..Len(json) : Bytes(json, start, j + 1) > bytes}) - 1

Section(json, start, bytes) == SubSeq(json, start, SectionEnd(json, start, bytes))

\* the regex "s"\s*:\s*\[\s*-([0-9]+\.?[0-9]*)\s*, matches at token i
NegXAt(json, i) ==
    /\ i + 5 <= Len(json)
    /\ IsStr(json[i], "s")
    /\ IsCh(json[i + 1], ":")
    /\ IsCh(json[i + 2], "[")
    /\ IsCh(json[i + 3], "-")
    /\ IsDigit(json[i + 4])
    /\ IsCh(json[i + 5], ",")

\* lines 117-138: the new X of a keyframe whose X is -xAbs
NewX(xAbs, widthDiff) ==
    LET x == -xAbs
    IN IF widthDiff > Tenth THEN x - widthDiff
       ELSE IF widthDiff < -Tenth THEN x
       ELSE x

\* lines 99-171: every negative X of the keyframes json[first..last] is
\* printed again, with one decimal (a value that is negative or -0 keeps
\* its minus sign)
ReplaceNegX(json, first, last, widthDiff) ==
    [i \in 1..Len(json) |->
        IF i - 4 >= first /\ i + 1 <= last /\ NegXAt(json, i - 4)
        THEN N(Abs(Round1(NewX(json[i].n, widthDiff))))
        ELSE json[i]]

\* lines 54-183: the loop over the "p" keys of the layer section; the
\* result is the index (in the section) of the '[' that opens the
\* keyframes of the first "p" that is animated, 0 when there is none
RECURSIVE FindAnimatedPosition(_, _, _)
FindAnimatedPosition(layerSection, textDataPos, pPos) ==
    IF pPos = 0 \/ ~(Bytes(layerSection, 1, pPos) < Bytes(layerSection, 1, textDataPos) + 5000)
    THEN 0
    ELSE Bind(FindStr(layerSection, "a", pPos), LAMBDA aCheck :
         Bind(IF aCheck # 0 /\ Bytes(layerSection, pPos, aCheck) < 50
              THEN FindCh(layerSection, ":", aCheck) ELSE 0, LAMBDA colonPos :
         Bind(IF /\ colonPos # 0
                 /\ colonPos + 1 <= Len(layerSection)
                 /\ layerSection[colonPos + 1] = N(Unit)
              THEN FindStr(layerSection, "k", pPos) ELSE 0, LAMBDA kPos :
         Bind(IF kPos # 0 THEN FindCh(layerSection, "[", kPos) ELSE 0,
              LAMBDA arrayStart :
         IF arrayStart # 0 THEN arrayStart
         ELSE FindAnimatedPosition(layerSection, textDataPos,
                                   FindStr(layerSection, "p", pPos + 1))))))

\* lines 11-184: where the keyframes are that adjustTextAnimatorPosition
\* rewrites: [ok, first, last], the indexes in json of their brackets
AdjustLocate(json, layerName) ==
    Bind([ok |-> FALSE, first |-> 0, last |-> 0], LAMBDA none :
    Bind(RegexSearchName(json, escapeRegex(layerName)), LAMBDA layerNamePos :
    IF layerNamePos = 0 THEN none ELSE
    Bind(Section(json, layerNamePos, 15000), LAMBDA layerSection :
    Bind(FindStr(layerSection, "t", 1), LAMBDA textDataPos :
    IF textDataPos = 0 THEN none ELSE
    Bind(FindStr(layerSection, "a", textDataPos), LAMBDA animatorArrayPos :
    IF animatorArrayPos = 0 THEN none ELSE
    Bind(FindAnimatedPosition(layerSection, textDataPos,
                              FindStr(layerSection, "p", animatorArrayPos)),
         LAMBDA arrayStart :
    IF arrayStart = 0 THEN none ELSE
    Bind(layerNamePos + arrayStart - 1, LAMBDA absoluteArrayStart :
    Bind(CountLoop(json, "[", "]", absoluteArrayStart, 10000, 0), LAMBDA closing :
    IF closing = 0 THEN none
    ELSE [ok |-> TRUE, first |-> absoluteArrayStart, last |-> closing]))))))))

adjustTextAnimatorPosition(json, layerName, widthDiff) ==
    IF Abs(widthDiff) < Tenth THEN json
    ELSE Bind(AdjustLocate(json, layerName), LAMBDA loc :
         IF ~loc.ok THEN json
         ELSE ReplaceNegX(json, loc.first, loc.last, widthDiff))

----------------------------------------------------------------------------
(* Override file: src/src/text/layer_overrides.cpp.                        *)
(* The "textLayers" section of the file is the sequence of its entries in  *)
(* file order; an entry holds its layer name and, for each field, what the *)
(* file has written for it: a decimal number (0 when the field is absent), *)
(* or the characters between the quotes of a string (<<>> when absent).    *)

\* lines 26-37: the pattern ([0-9]+\.?[0-9]*) has no sign, so a number
\* written with a minus sign does not match and 0.0 is returned
extractJsonFloat(written) == IF written < 0 THEN 0 ELSE written

\* lines 17-24: the pattern "([^"]+)" captures up to the first double quote
extractJsonString(written) ==
    LET quote == First({i \in 1..Len(written) : written[i] = QT})
    IN IF quote = 0 THEN written ELSE SubSeq(written, 1, quote - 1)

\* a validation without the comparison of maxSize and minSize
validateTextLayerConfig_NoOrder(cfg) ==
    /\ ~(cfg.minSize < 0)
    /\ ~(cfg.maxSize < 0)
    /\ ~(cfg.textBoxWidth < 0)

\* lines 39-63
validateTextLayerConfig(cfg) ==
    /\ ~(cfg.minSize > 0 /\ cfg.maxSize > 0 /\ cfg.maxSize <= cfg.minSize)
    /\ ~(cfg.minSize < 0)
    /\ ~(cfg.maxSize < 0)
    /\ ~(cfg.textBoxWidth < 0)

\* lines 266-268: U+0003, escaped or not, becomes a carriage return
NormalizeValue(value) ==
    replaceCharInPlace(replaceAllInPlace(value, EscapedETX, <<CR>>), ETX, CR)

\* lines 259-268: the LayerOverride read from one entry
LayerConfig(entry) ==
    [minSize |-> extractJsonFloat(entry.minSize),
     maxSize |-> extractJsonFloat(entry.maxSize),
     fallbackText |-> extractJsonString(entry.fallbackText),
     textBoxWidth |-> extractJsonFloat(entry.textBoxWidth),
     value |-> NormalizeValue(extractJsonString(entry.value))]

\* configs[layerName] = config
MapPut(configs, layerName, cfg) ==
    [n \in DOMAIN configs \cup {layerName} |->
        IF n = layerName THEN cfg ELSE configs[n]]

\* lines 231-279: the loop over the entries; i is the next entry
RECURSIVE ParseEntries(_, _, _)
ParseEntries(entries, i, configs) ==
    IF i > Len(entries) THEN configs
    ELSE Bind(LayerConfig(entries[i]), LAMBDA cfg :
         ParseEntries(entries, i + 1,
             IF validateTextLayerConfig(cfg)
             THEN MapPut(configs, entries[i].name, cfg)
             ELSE configs))

\* lines 198-285
parseLayerOverrides(f) ==
    IF f.configPath = "" \/ ~f.isOpen THEN <<>>
    ELSE ParseEntries(f.entries, 1, <<>>)

----------------------------------------------------------------------------
(* Image overrides: src/src/text/layer_overrides.cpp.                      *)
(* The "imageLayers" section of the file is the sequence of its entries in *)
(* file order; an entry holds its asset id and what the file has written   *)
(* for "filePath" and "fileName" (<<>> when absent).  A path is a sequence *)
(* of characters.                                                          *)

Slash == "/"
Http == <<"h", "t", "t", "p", ":", Slash, Slash>>
Https == <<"h", "t", "t", "p", "s", ":", Slash, Slash>>

\* s.substr(0, Len(prefix)) == prefix
HasPrefix(s, prefix) ==
    Len(s) >= Len(prefix) /\ SubSeq(s, 1, Len(prefix)) = prefix

\* s with a separator at its end
WithSeparator(s) ==
    IF s[Len(s)] # Slash /\ s[Len(s)] # BS THEN s \o <<Slash>> ELSE s

\* The file system the program runs in: the working directory /w holds the
\* regular file f and the directory d, which holds the regular file f.  A
\* file is named by the names on the way to it from the root.
Cwd == <<Slash, "w">>
RegularFiles == {<<<<"w">>, <<"f">>>>, <<<<"w">>, <<"d">>, <<"f">>>>}
Directories == {<<>>, <<<<"w">>>>, <<<<"w">>, <<"d">>>>}

\* the names of a path: what lies between its separators, without the
\* empty names and the names "."
RECURSIVE Split(_, _, _)
Split(path, i, name) ==
    IF i > Len(path)
    THEN IF name = <<>> \/ name = <<".">> THEN <<>> ELSE <<name>>
    ELSE IF path[i] = Slash
    THEN (IF name = <<>> \/ name = <<".">> THEN <<>> ELSE <<name>>)
         \o Split(path, i + 1, <<>>)
    ELSE Split(path, i + 1, name \o <<path[i]>>)

Names(path) == Split(path, 1, <<>>)

\* std::filesystem::absolute
Absolute(path) ==
    IF path # <<>> /\ path[1] = Slash THEN path ELSE Cwd \o <<Slash>> \o path

\* std::filesystem::is_regular_file and std::filesystem::exists: a path
\* that ends in a separator names a directory only
IsRegularFile(path) ==
    path[Len(path)] # Slash /\ Names(path) \in RegularFiles

Exists(path) ==
    \/ IsRegularFile(path)
    \/ Names(path) \in Directories

\* lines 67-73 for a configPath without a directory: the absolute path of "."
OverridesBaseDir == Absolute(<<".">>)

\* lines 89-113: the full path of a configuration, <<>> when none is formed
FullPath(cfg) ==
    IF cfg.filePath = <<>> /\ cfg.fileName # <<>> THEN cfg.fileName
    ELSE IF cfg.filePath # <<>> /\ cfg.fileName # <<>>
    THEN IF cfg.filePath[1] = Slash
         THEN WithSeparator(cfg.filePath) \o cfg.fileName
         ELSE WithSeparator(Absolute(OverridesBaseDir \o <<Slash>> \o cfg.filePath))
              \o cfg.fileName
    ELSE <<>>

\* a validation that lets every filePath through
validateImageLayerConfig_NoUrlCheck(cfg) ==
    /\ ~(cfg.fileName = <<>> /\ cfg.filePath = <<>>)
    /\ Bind(FullPath(cfg), LAMBDA fullPath :
       fullPath # <<>> => /\ Exists(Absolute(fullPath))
                          /\ IsRegularFile(Absolute(fullPath)))

\* lines 65-138
validateImageLayerConfig(cfg) ==
    /\ ~(cfg.fileName = <<>> /\ cfg.filePath = <<>>)
    /\ ~(HasPrefix(cfg.filePath, Http) \/ HasPrefix(cfg.filePath, Https))
    /\ Bind(FullPath(cfg), LAMBDA fullPath :
       fullPath # <<>> => /\ Exists(Absolute(fullPath))
                          /\ IsRegularFile(Absolute(fullPath)))

\* lines 366-368: the ImageLayerOverride read from one entry
ImageConfig(entry) ==
    [filePath |-> extractJsonString(entry.filePath),
     fileName |-> extractJsonString(entry.fileName)]

\* lines 345-386: the loop over the entries; i is the next entry
RECURSIVE ParseImageEntries(_, _, _)
ParseImageEntries(entries, i, configs) ==
    IF i > Len(entries) THEN configs
    ELSE Bind(ImageConfig(entries[i]), LAMBDA cfg :
         ParseImageEntries(entries, i + 1,
             IF validateImageLayerConfig(cfg)
             THEN MapPut(configs, entries[i].id, cfg)
             ELSE configs))

\* a parser that reads the entries whether or not the file was opened
parseImageLayers_NoOpenCheck(f) ==
    IF f.configPath = "" THEN <<>>
    ELSE ParseImageEntries(f.images, 1, <<>>)

\* lines 287-391
parseImageLayers(f) ==
    IF f.configPath = "" \/ ~f.isOpen THEN <<>>
    ELSE ParseImageEntries(f.images, 1, <<>>)

\* The path of an image override: the directory, then the file name.
ResolvedPath(cfg) ==
    IF cfg.fileName = <<>> THEN cfg.filePath
    ELSE IF cfg.filePath = <<>> THEN cfg.fileName
    ELSE WithSeparator(cfg.filePath) \o cfg.fileName

\* The map from asset id to image path that processLayerOverrides asks for
\* (its definition is not among the sources): the resolved path of every
\* image override of the file, and no entry for a file that is missing.
parseImagePaths(f) ==
    Bind(parseImageLayers(f), LAMBDA imageOverrides :
    [id \in DOMAIN imageOverrides |-> ResolvedPath(imageOverrides[id])])

----------------------------------------------------------------------------
(* Orchestrator: src/src/text/text_processor.cpp *)

\* std::map iterates in the order of its keys
KeyOrder == <<".", "A", "B", "Z">>

\* lines 179-185: the first "w":number of the document, 720 without one
AnimationWidth(json) ==
    Bind(SearchNumberField(json, "w"), LAMBDA at :
    IF at = 0 THEN Pt(720) ELSE json[at].n)

\* line 257: targetWidth * textPadding, textPadding in hundredths
PaddedTargetWidth(target, textPadding) ==
    (target \div 100) * textPadding + ((target % 100) * textPadding) \div 100

FallbackIterations == 10

\* lines 306-322: the search for the fallback text; i iterations done
RECURSIVE FallbackLoop(_, _, _, _, _, _, _)
FallbackLoop(i, min, max, bestSize, t, target, m) ==
    IF i >= FallbackIterations THEN bestSize
    ELSE LET testSize == (min + max) \div 2
             testWidth == measureTextWidth(testSize, t, m)
         IN IF testWidth <= target
            THEN FallbackLoop(i + 1, testSize, max, testSize, t, target, m)
            ELSE FallbackLoop(i + 1, min, testSize, bestSize, t, target, m)

\* a fallback branch that keeps the primary text
FallbackTextToUse_Primary(cfg, textToUse) == textToUse

\* line 286: textToUse = config.fallbackText
FallbackTextToUse(cfg, textToUse) == cfg.fallbackText

\* a fallback branch that gives no size to a fallback text that overflows
FallbackSize_NoOverflow(cfg, textToUse, padded, m) ==
    IF measureTextWidth(cfg.minSize, textToUse, m) > padded THEN NoFit
    ELSE Min(FallbackLoop(0, cfg.minSize, cfg.maxSize, cfg.minSize, textToUse, padded, m),
             cfg.maxSize)

\* lines 292-329: the size of the fallback text: minSize when it overflows
\* at minSize, the result of the search otherwise
FallbackSize(cfg, textToUse, padded, m) ==
    IF measureTextWidth(cfg.minSize, textToUse, m) > padded THEN cfg.minSize
    ELSE Min(FallbackLoop(0, cfg.minSize, cfg.maxSize, cfg.minSize, textToUse, padded, m),
             cfg.maxSize)

\* lines 214-336, the body of the first loop for one layer: skip is TRUE
\* where the code continues; mod is the LayerModification pushed; call
\* records the primary text and what the solver returned for it
PlanLayer(json, layerName, cfg, animationWidth, textPadding, m, garbage) ==
    Bind(extractFontInfoFromJson(json, layerName, garbage), LAMBDA info :
    Bind(IF cfg.value = <<>> THEN info.text ELSE cfg.value, LAMBDA primary :
    IF info.name = "" \/ primary = <<>>
    THEN [skip |-> TRUE, mod |-> <<>>, call |-> <<>>] ELSE
    Bind(IF cfg.textBoxWidth > 0 THEN cfg.textBoxWidth
         ELSE IF info.textBoxWidth > 0 THEN info.textBoxWidth
         ELSE animationWidth, LAMBDA target :
    Bind(PaddedTargetWidth(target, textPadding), LAMBDA padded :
    Bind(calculateOptimalFontSize(info, cfg, primary, padded, m), LAMBDA solved :
    Bind(IF solved < 0 THEN FallbackTextToUse(cfg, primary) ELSE primary,
         LAMBDA textToUse :
    Bind(IF solved >= 0 THEN solved ELSE FallbackSize(cfg, textToUse, padded, m),
         LAMBDA optimal :
    [skip |-> FALSE,
     mod |-> [layerName |-> layerName,
              textToUse |-> textToUse,
              optimalSize |-> optimal,
              originalTextWidth |-> measureTextWidth(info.size, primary, m),
              newTextWidth |-> measureTextWidth(optimal, textToUse, m)],
     call |-> [layerName |-> layerName, text |-> primary,
               paddedTargetWidth |-> padded, returned |-> solved]])))))))

\* lines 213-337, the first loop: i is the next key in map order; the
\* result is the sequence of the PlanLayer results that were not skipped
RECURSIVE FirstPass(_, _, _, _, _, _, _)
FirstPass(json, overrides, i, animationWidth, textPadding, m, garbage) ==
    IF i > Len(KeyOrder) THEN <<>>
    ELSE Bind(FirstPass(json, overrides, i + 1, animationWidth, textPadding, m, garbage),
              LAMBDA rest :
         IF KeyOrder[i] \notin DOMAIN overrides THEN rest
         ELSE Bind(PlanLayer(json, KeyOrder[i], overrides[KeyOrder[i]],
                             animationWidth, textPadding, m, garbage[KeyOrder[i]]),
                   LAMBDA plan :
              IF plan.skip THEN rest ELSE <<plan>> \o rest))

\* lines 341-354, the second loop: i runs from the last modification down
RECURSIVE SecondPass(_, _, _)
SecondPass(json, mods, i) ==
    IF i < 1 THEN json
    ELSE Bind(modifyTextLayerInJson(json, mods[i].layerName,
                                    mods[i].textToUse, mods[i].optimalSize),
              LAMBDA modified :
         Bind(mods[i].newTextWidth - mods[i].originalTextWidth, LAMBDA widthDiff :
         SecondPass(IF Abs(widthDiff) > Tenth
                    THEN adjustTextAnimatorPosition(modified, mods[i].layerName,
                                                    Abs(widthDiff))
                    ELSE modified,
                    mods, i - 1)))

\* std::filesystem::path::filename and parent_path
LastSlash(path) ==
    IF \A i \in 1..Len(path) : path[i] # Slash THEN 0
    ELSE CHOOSE i \in 1..Len(path) :
            path[i] = Slash /\ \A j \in (i + 1)..Len(path) : path[j] # Slash

Filename(path) == SubSeq(path, LastSlash(path) + 1, Len(path))

RECURSIVE StripSlashes(_)
StripSlashes(path) ==
    IF path # <<>> /\ path[Len(path)] = Slash
    THEN StripSlashes(SubSeq(path, 1, Len(path) - 1))
    ELSE path

ParentPath(path) ==
    Bind(LastSlash(path), LAMBDA last :
    IF last = 0 THEN <<>>
    ELSE Bind(StripSlashes(SubSeq(path, 1, last - 1)), LAMBDA parent :
         IF parent = <<>> THEN <<Slash>> ELSE parent))

\* lines 119-128: the directory written to "u"
AssetDir(imagePath) ==
    Bind(ParentPath(imagePath), LAMBDA parent :
    Bind(IF parent # <<>> THEN WithSeparator(parent) ELSE parent, LAMBDA dir :
    IF dir = <<Slash>> \/ dir = <<BS>> THEN <<>> ELSE dir))

\* std::regex_replace with the pattern "key"\s*:\s*"[^"]*": every string
\* value of the key, from the token from on, becomes value
RECURSIVE ReplaceStringField(_, _, _, _)
ReplaceStringField(obj, key, value, from) ==
    Bind(FindStr(obj, key, from), LAMBDA at :
    IF at = 0 THEN obj
    ELSE Bind(IF at + 2 > Len(obj) \/ ~IsCh(obj[at + 1], ":") THEN 0
              ELSE IF obj[at + 2].k = "str" THEN at + 2
              ELSE IF IsCh(obj[at + 2], QT) THEN FindCh(obj, QT, at + 3)
              ELSE 0,
              LAMBDA closing :
         IF closing = 0 THEN ReplaceStringField(obj, key, value, at + 1)
         ELSE ReplaceStringField(
                  SubSeq(obj, 1, at + 1) \o Quoted(value)
                  \o SubSeq(obj, closing + 1, Len(obj)),
                  key, value, at + 2 + Len(value) + 2)))

\* the regex "id"\s*:\s*"<pattern>" matches at token i
IdAt(json, i, pattern) ==
    /\ i + 2 <= Len(json)
    /\ IsStr(json[i], "id")
    /\ IsCh(json[i + 1], ":")
    /\ json[i + 2].k = "str"
    /\ RegexMatches(pattern, json[i + 2].s)

\* more bytes than json has: the bound of a loop that runs to the end
Length(json) == Bytes(json, 1, Len(json) + 1) + 1

\* lines 85-101: where the asset object with the id starts and ends;
\* start = 0 when the id or the brace before it is not found
AssetLocate(modifiedAssets, assetId) ==
    Bind(First({i \in 1..Len(modifiedAssets) :
                   IdAt(modifiedAssets, i, Unescaped(assetId))}), LAMBDA assetStart :
    Bind(IF assetStart = 0 \/ \A i \in 1..assetStart : ~IsCh(modifiedAssets[i], "{")
         THEN 0
         ELSE CHOOSE i \in 1..assetStart :
                 /\ IsCh(modifiedAssets[i], "{")
                 /\ \A j \in (i + 1)..assetStart : ~IsCh(modifiedAssets[j], "{"),
         LAMBDA objStart :
    [start |-> objStart,
     end |-> IF objStart = 0 THEN 0
             ELSE CountLoop(modifiedAssets, "{", "}", objStart,
                            Length(modifiedAssets), objStart)]))

\* lines 56-148: one image override applied to the assets array
ApplyImagePath(modifiedAssets, assetId, imagePath) ==
    IF imagePath = <<>> THEN modifiedAssets
    ELSE Bind(AssetLocate(modifiedAssets, assetId), LAMBDA obj :
         IF obj.start = 0 \/ ~(obj.end > obj.start) THEN modifiedAssets
         ELSE SubSeq(modifiedAssets, 1, obj.start - 1)
              \o ReplaceStringField(
                     ReplaceStringField(SubSeq(modifiedAssets, obj.start, obj.end),
                                        "u", AssetDir(imagePath), 1),
                     "p", Filename(imagePath), 1)
              \o SubSeq(modifiedAssets, obj.end + 1, Len(modifiedAssets)))

\* lines 55-149: the loop over the image paths in the order of their keys
RECURSIVE ApplyImagePathsFrom(_, _, _)
ApplyImagePathsFrom(modifiedAssets, imagePaths, i) ==
    IF i > Len(KeyOrder) THEN modifiedAssets
    ELSE ApplyImagePathsFrom(
             IF KeyOrder[i] \in DOMAIN imagePaths
             THEN ApplyImagePath(modifiedAssets, KeyOrder[i], imagePaths[KeyOrder[i]])
             ELSE modifiedAssets,
             imagePaths, i + 1)

\* lines 31-165: the image path overrides
ApplyImagePaths(json, imagePaths) ==
    IF DOMAIN imagePaths = {} THEN json
    ELSE Bind(FindStr(json, "assets", 1), LAMBDA assetsPos :
         Bind(IF assetsPos = 0 THEN 0 ELSE FindCh(json, "[", assetsPos), LAMBDA arrayStart :
         Bind(IF arrayStart = 0 THEN 0
              ELSE CountLoop(json, "[", "]", arrayStart, Length(json), arrayStart),
              LAMBDA arrayEnd :
         IF arrayStart = 0 \/ ~(arrayEnd > arrayStart) THEN json
         ELSE SubSeq(json, 1, arrayStart - 1)
              \o ApplyImagePathsFrom(SubSeq(json, arrayStart, arrayEnd), imagePaths, 1)
              \o SubSeq(json, arrayEnd + 1, Len(json)))))

\* the text layer overrides of lines 167-357 on the document the image
\* overrides have left: [json, overrides, mods, calls]
ProcessTextLayers(json, overrides, textPadding, m, garbage) ==
    Bind(IF DOMAIN overrides = {} THEN <<>>
         ELSE FirstPass(json, overrides, 1, AnimationWidth(json), textPadding, m, garbage),
         LAMBDA plans :
    Bind([i \in 1..Len(plans) |-> plans[i].mod], LAMBDA mods :
    [json |-> SecondPass(json, mods, Len(mods)),
     overrides |-> overrides,
     mods |-> mods,
     calls |-> [i \in 1..Len(plans) |-> plans[i].call]]))

\* lines 17-357: [json, overrides, mods, calls]
processLayerOverrides(json, f, textPadding, m, garbage) ==
    ProcessTextLayers(ApplyImagePaths(json, parseImagePaths(f)),
                      parseLayerOverrides(f), textPadding, m, garbage)

----------------------------------------------------------------------------
(* Command line: src/src/core/argument_parser.cpp and src/src/main.cpp.    *)
(* An argument is a string; argv holds the arguments after the program     *)
(* name, argv[i] the one the loop of parseArguments is at.  stdout is the  *)
(* sequence of the lines printed on std::cout, stderr that of the messages *)
(* printed through LOG_CERR.  The floats of the command line (fps, text    *)
(* padding) are counted in hundredths.                                      *)

Arguments ==
    [output_png |-> FALSE, output_webp |-> FALSE, stream_mode |-> FALSE,
     debug_mode |-> FALSE, show_version |-> FALSE, input_file |-> "",
     output_dir |-> "", text_config_file |-> "", fps |-> 3000,
     text_padding |-> 97, text_measurement_mode |-> "ACCURATE"]

\* std::stof on the arguments of the model: the value, or an exception
stof(arg) ==
    CASE arg = "30" -> [threw |-> FALSE, value |-> 3000]
      [] arg = "0.5" -> [threw |-> FALSE, value |-> 50]
      [] arg = "2" -> [threw |-> FALSE, value |-> 200]
      [] OTHER -> [threw |-> TRUE, value |-> 0]

\* ::tolower over the characters of the arguments of the model
tolower(modeStr) ==
    CASE modeStr = "FAST" -> "fast"
      [] modeStr = "Accurate" -> "accurate"
      [] OTHER -> modeStr

\* arg[0] == '-' for the arguments of the model
StartsWithDash(arg) ==
    arg \in {"-", "-h", "--png", "--webp", "--stream", "--debug", "--text-config",
             "--text-padding", "--text-measurement-mode", "--version", "--help",
             "--bogus"}

\* the file system the program runs in: what is at a path
PathKind(path) ==
    CASE path = "in.json" -> "file"
      [] path = "out" -> "directory"
      [] path = "notes.txt" -> "file"
      [] OTHER -> "none"

printUsage(c) == [c EXCEPT !.stderr = Append(@, "Usage")]

printVersion(c) == [c EXCEPT !.stdout = Append(@, "lotio version")]

\* a return statement of parseArguments after an error message
ParseError(c, message) ==
    [c EXCEPT !.returned = TRUE, !.parse_result = 1, !.stderr = Append(@, message)]

ParseReturn(c, value) == [c EXCEPT !.returned = TRUE, !.parse_result = value]

\* the end of an iteration that returned nothing: consumed arguments passed
NextArgument(c, args, consumed) == [c EXCEPT !.args = args, !.i = @ + consumed]

HasValue(c) == c.i + 1 <= Len(c.argv)

TextPadding(c) ==
    IF ~HasValue(c) THEN ParseError(c, "Error: --text-padding requires a value")
    ELSE Bind(stof(c.argv[c.i + 1]), LAMBDA f :
        IF f.threw
        THEN ParseError([c EXCEPT !.i = @ + 1], "Error: Invalid --text-padding value")
        ELSE IF f.value < 0 \/ f.value > 100
        THEN ParseError([c EXCEPT !.i = @ + 1, !.args.text_padding = f.value],
                        "Error: --text-padding must be between 0.0 and 1.0")
        ELSE NextArgument(c, [c.args EXCEPT !.text_padding = f.value], 2))

TextMeasurementModeOf(modeStr) ==
    CASE modeStr = "fast" -> "FAST"
      [] modeStr = "accurate" -> "ACCURATE"
      [] modeStr \in {"pixel-perfect", "pixelperfect"} -> "PIXEL_PERFECT"
      [] OTHER -> "invalid"

TextMeasurementMode(c) ==
    IF ~HasValue(c) THEN ParseError(c, "Error: --text-measurement-mode requires a value")
    ELSE Bind(TextMeasurementModeOf(tolower(c.argv[c.i + 1])), LAMBDA m :
        IF m = "invalid"
        THEN ParseError([c EXCEPT !.i = @ + 1], "Error: Invalid --text-measurement-mode value")
        ELSE NextArgument(c, [c.args EXCEPT !.text_measurement_mode = m], 2))

Positional(c, arg) ==
    IF c.args.input_file = ""
    THEN NextArgument(c, [c.args EXCEPT !.input_file = arg], 1)
    ELSE IF c.args.output_dir = ""
    THEN NextArgument(c, [c.args EXCEPT !.output_dir = arg], 1)
    ELSE Bind(stof(arg), LAMBDA f :
        IF f.threw THEN ParseError(c, "Error: Invalid fps value")
        ELSE NextArgument(c, [c.args EXCEPT !.fps = f.value], 1))

\* one iteration of the loop of parseArguments, on argv[i]
ParseOne(c, arg) ==
    CASE arg = "--png" -> NextArgument(c, [c.args EXCEPT !.output_png = TRUE], 1)
      [] arg = "--webp" -> NextArgument(c, [c.args EXCEPT !.output_webp = TRUE], 1)
      [] arg = "--stream" -> NextArgument(c, [c.args EXCEPT !.stream_mode = TRUE], 1)
      [] arg = "--debug" -> NextArgument(c, [c.args EXCEPT !.debug_mode = TRUE], 1)
      [] arg = "--text-config" ->
            IF HasValue(c)
            THEN NextArgument(c, [c.args EXCEPT !.text_config_file = c.argv[c.i + 1]], 2)
            ELSE ParseError(c, "Error: --text-config requires a file path")
      [] arg = "--text-padding" -> TextPadding(c)
      [] arg = "--text-measurement-mode" -> TextMeasurementMode(c)
      [] arg = "--version" -> ParseReturn([c EXCEPT !.args.show_version = TRUE], 3)
      [] arg \in {"--help", "-h"} -> ParseReturn(printUsage(c), 2)
      [] ~StartsWithDash(arg) \/ arg = "-" -> Positional(c, arg)
      [] OTHER -> ParseError(c, "Error: Unknown option")

\* the output directory of a run that writes files; created: whether
\* create_directories succeeds
OutputDirectory(c, created) ==
    IF c.args.output_dir = ""
    THEN ParseError(printUsage(c), "Error: Missing output directory")
    ELSE IF PathKind(c.args.output_dir) = "none"
    THEN IF created THEN ParseReturn(c, 0)
         ELSE ParseError(c, "Error: Failed to create output directory")
    ELSE IF PathKind(c.args.output_dir) # "directory"
    THEN ParseError(c, "Error: Output path exists but is not a directory")
    ELSE ParseReturn(c, 0)

\* parseArguments after its loop
Validate(c, created) ==
    IF c.args.show_version THEN ParseReturn(printVersion(c), 3)
    ELSE IF ~c.args.output_png /\ ~c.args.output_webp
    THEN ParseError(c, "Error: At least one of --png or --webp must be specified.")
    ELSE IF c.args.stream_mode /\ ~c.args.output_png
    THEN ParseError(c, "Error: Streaming mode requires --png")
    ELSE IF c.args.input_file = ""
    THEN ParseError(printUsage(c), "Error: Missing input file.")
    ELSE IF PathKind(c.args.input_file) = "none"
    THEN ParseError(c, "Error: Input file does not exist")
    ELSE IF PathKind(c.args.input_file) # "file"
    THEN ParseError(c, "Error: Input path is not a file")
    ELSE IF ~c.args.stream_mode THEN OutputDirectory(c, created)
    ELSE ParseReturn([c EXCEPT !.args.output_dir = IF @ = "" THEN "-" ELSE @], 0)

\* one step of parseArguments: an iteration of its loop, or what follows it
parseArguments(c, created) ==
    IF c.i <= Len(c.argv) THEN ParseOne(c, c.argv[c.i]) ELSE Validate(c, created)

\* main after parseArguments returned; setup: whether
\* setupAndCreateAnimation succeeds, rendered: what renderFrames returns
main(c, setup, rendered) ==
    [c EXCEPT !.exited = TRUE,
              !.status = IF c.parse_result = 2 THEN 0
                         ELSE IF c.parse_result # 0 THEN 1
                         ELSE IF ~setup THEN 1
                         ELSE rendered]

NoCli ==
    [argv |-> <<>>, i |-> 1, args |-> Arguments, returned |-> FALSE,
     parse_result |-> 0, stdout |-> <<>>, stderr |-> <<>>, exited |-> FALSE,
     status |-> 0]

----------------------------------------------------------------------------
(* Renderer: src/src/core/renderer.cpp.  The frames of a call are numbered *)
(* from 0; a worker thread takes its frames in order, one frame a step;    *)
(* the writer thread of the stream mode takes one frame a step.  ready is  *)
(* the set of the frames buffered in frame_buffer, output the set of the   *)
(* frames written to their file or to stdout.  waiting tells that the      *)
(* writer thread is blocked in buffer_cv.wait; cout_good is the state of   *)
(* std::cout, which stays bad once a write has failed.  Three fields are   *)
(* history: buffered, the frames in the order the workers buffered them,   *)
(* stdout, the frames in the order they were written to stdout, and        *)
(* skipped, the frames the writer reported as not rendered.                *)

NumThreads == 2

Threads == 0 .. NumThreads - 1

\* thread_frames[t] after the round-robin distribution
ThreadFrames(num_frames, t) ==
    SelectSeq([i \in 1 .. num_frames |-> i - 1], LAMBDA frame_idx : frame_idx % NumThreads = t)

RenderCall(stream_mode, num_frames) ==
    [stream_mode |-> stream_mode, num_frames |-> num_frames, started |-> FALSE,
     thread_frames |-> [t \in Threads |-> <<>>],
     local_completed |-> [t \in Threads |-> 0],
     finished |-> [t \in Threads |-> FALSE],
     ready |-> {}, output |-> {}, completed_frames |-> 0, failed_frames |-> 0,
     next_frame_to_write |-> 0, waiting |-> FALSE, cout_good |-> TRUE,
     buffered |-> <<>>, stdout |-> <<>>, skipped |-> {},
     returned |-> FALSE, result |-> 0]

NoRender == RenderCall(FALSE, 0)

\* renderFrames up to the launch of its threads; setup: whether every
\* surface and every per-thread animation could be created
Launch(r, setup) ==
    IF setup
    THEN [r EXCEPT !.started = TRUE,
                   !.thread_frames = [t \in Threads |-> ThreadFrames(r.num_frames, t)]]
    ELSE [r EXCEPT !.returned = TRUE, !.result = 1]

\* what can happen to a frame in a worker
Outcomes(r) ==
    {"no snapshot", "not converted", "not encoded", "encoded"}
        \cup (IF r.stream_mode THEN {} ELSE {"not written"})

FrameFailed(r, t) ==
    [r EXCEPT !.failed_frames = @ + 1, !.thread_frames[t] = Tail(@)]

\* the frame is buffered (buffer_cv.notify_all wakes the writer) or written
\* to its file, and counted
FrameDone(r, t, frame_idx, local) ==
    [r EXCEPT !.thread_frames[t] = Tail(@),
              !.local_completed[t] = local,
              !.ready = IF r.stream_mode THEN @ \cup {frame_idx} ELSE @,
              !.buffered = IF r.stream_mode THEN Append(@, frame_idx) ELSE @,
              !.waiting = IF r.stream_mode THEN FALSE ELSE @,
              !.output = IF r.stream_mode THEN @ ELSE @ \cup {frame_idx},
              !.completed_frames = IF local % 10 = 0 THEN @ + 10 ELSE @]

\* one iteration of the loop of render_frame_worker
render_frame_worker(r, t, outcome) ==
    IF outcome = "encoded"
    THEN FrameDone(r, t, Head(r.thread_frames[t]), r.local_completed[t] + 1)
    ELSE FrameFailed(r, t)

\* the end of render_frame_worker: the remainder of its count
WorkerEnd(r, t) ==
    [r EXCEPT !.finished[t] = TRUE,
              !.completed_frames = @ + (r.local_completed[t] % 10)]

\* the condition the writer thread waits on
WriterWaits(r) ==
    /\ r.next_frame_to_write \notin r.ready
    /\ r.completed_frames + r.failed_frames < r.num_frames

\* buffer_cv.wait
Wait(r) == [r EXCEPT !.waiting = TRUE]

\* the writer thread leaves buffer_cv.wait
Wake(r) == [r EXCEPT !.waiting = FALSE]

\* the writer thread after its wait loop, writing frame `frame`; good:
\* std::cout.good() after the write
WriteNext(r, frame, good) ==
    IF frame \in r.ready
    THEN [r EXCEPT !.output = IF good THEN @ \cup {frame} ELSE @,
                   !.stdout = IF good THEN Append(@, frame) ELSE @,
                   !.cout_good = good,
                   !.failed_frames = IF good THEN @ ELSE @ + 1,
                   !.next_frame_to_write = @ + 1]
    ELSE [r EXCEPT !.failed_frames = @ + 1,
                   !.skipped = @ \cup {frame},
                   !.next_frame_to_write = @ + 1]

\* the highest frame of the buffer, when it holds one
Highest(r) ==
    IF r.ready = {} THEN r.next_frame_to_write
    ELSE CHOOSE f \in r.ready : \A g \in r.ready : g <= f

\* a writer that takes the highest buffered frame instead of the next one
writer_thread_HighestReady(r, good) == WriteNext(r, Highest(r), good)

\* one iteration of the loop of the writer thread after its wait loop
writer_thread(r, good) == WriteNext(r, r.next_frame_to_write, good)

\* the threads renderFrames joins have ended
Joined(r) ==
    /\ \A t \in Threads : r.finished[t]
    /\ r.stream_mode => r.next_frame_to_write = r.num_frames

\* renderFrames after the joins
renderFrames(r) == [r EXCEPT !.returned = TRUE, !.result = 0]

----------------------------------------------------------------------------
(* WASM interface: src/src/wasm/lotio_wasm.cpp.  context tells whether     *)
(* g_context holds a WasmAnimationContext, animation whether its animation *)
(* is non-null, width the width it recorded, and fonts the names           *)
(* registered with its font manager.  Three fields are history: calls, the *)
(* number of calls made, last, the name and the return value of the last   *)
(* call, and init, the return value of the most recent lotio_init (-1      *)
(* before the first one, and after a lotio_cleanup).                       *)

NoWasm ==
    [context |-> FALSE, animation |-> FALSE, width |-> 0, fonts |-> {},
     calls |-> 0, last |-> [call |-> "none", result |-> 0], init |-> -1]

Called(w, call, result) ==
    [w EXCEPT !.calls = @ + 1, !.last = [call |-> call, result |-> result]]

\* g_context after `if (!g_context) g_context = make_unique<...>()`: a new
\* context has no animation, width 0 and an empty font manager
WithContext(w) == [w EXCEPT !.context = TRUE]

\* lotio_init; outcome: "threw" when a statement before builder.make throws
\* (std::stof on the document's width, a regex, an allocation), "not parsed"
\* when builder.make returns null, "created" otherwise
lotio_init(w, width, outcome) ==
    CASE outcome = "threw" ->
            [Called(WithContext(w), "lotio_init", 1) EXCEPT !.init = 1]
      [] outcome = "not parsed" ->
            [Called(WithContext(w), "lotio_init", 1) EXCEPT !.init = 1, !.animation = FALSE]
      [] OTHER ->
            [Called(WithContext(w), "lotio_init", 0) EXCEPT
                !.init = 0, !.animation = TRUE, !.width = width]

\* lotio_register_font; valid: the arguments are non-null and the size is
\* not 0; outcome: "no data", "threw" or "registered"
lotio_register_font(w, fontName, valid, outcome) ==
    IF ~valid THEN Called(w, "lotio_register_font", 2)
    ELSE IF outcome = "no data" THEN Called(w, "lotio_register_font", 3)
    ELSE IF outcome = "threw" THEN Called(w, "lotio_register_font", 4)
    ELSE [Called(WithContext(w), "lotio_register_font", 0) EXCEPT !.fonts = @ \cup {fontName}]

lotio_cleanup(w) ==
    [Called(w, "lotio_cleanup", 0) EXCEPT
        !.context = FALSE, !.animation = FALSE, !.width = 0, !.fonts = {}, !.init = -1]

\* `!g_context || !g_context->animation`
NoAnimation(w) == ~w.context \/ ~w.animation

lotio_get_info(w) ==
    Called(w, "lotio_get_info", IF NoAnimation(w) THEN 1 ELSE 0)

\* lotio_render_frame; fits: rgba_size is not below the expected size;
\* failure: the return value of the step that fails, 0 when none does
lotio_render_frame(w, fits, failure) ==
    Called(w, "lotio_render_frame",
           IF NoAnimation(w) THEN 1 ELSE IF ~fits THEN 2 ELSE failure)

\* lotio_render_frame_png; failure: the return value of the step that
\* fails, 0 when none does
lotio_render_frame_png(w, failure) ==
    Called(w, "lotio_render_frame_png", IF NoAnimation(w) THEN 1 ELSE failure)

----------------------------------------------------------------------------
(* Documents of the model.  A layer is described by                        *)
(*   nm: its name, ty: its type, size/text: the text style, sz: the box    *)
(*   width (0: no "sz"), xs: the X values of the keyframes of the text     *)
(*   animator's position (<<>>: no animator).                              *)

Comma == C(",")
Colon == C(":")

Field(key, value) == <<K(key), Colon>> \o value

\* a position keyframe {"t":time,"s":[x,0]}
Keyframe(time, x) ==
    <<C("{")>> \o Field("t", <<N(time)>>) \o <<Comma>>
    \o Field("s", <<C("[")>> \o Signed(x) \o <<Comma, N(0), C("]")>>)
    \o <<C("}")>>

RECURSIVE Keyframes(_, _)
Keyframes(xs, i) ==
    IF i > Len(xs) THEN <<>>
    ELSE Keyframe(Pt(10 * (i - 1)), xs[i])
         \o (IF i < Len(xs) THEN <<Comma>> ELSE <<>>)
         \o Keyframes(xs, i + 1)

\* "ks":{"p":{"a":0,"k":[0,0]}}
Transform ==
    Field("ks", <<C("{")>>
        \o Field("p", <<C("{")>> \o Field("a", <<N(0)>>) \o <<Comma>>
                      \o Field("k", <<C("["), N(0), Comma, N(0), C("]")>>)
                      \o <<C("}")>>)
        \o <<C("}")>>)

\* {"s":size,"f":"Font","t":"text","sz":[sz,50]}
TextStyle(l) ==
    <<C("{")>> \o Field("s", <<N(l.size)>>) \o <<Comma>>
    \o Field("f", <<S("Font", 6)>>) \o <<Comma>>
    \o Field("t", Quoted(l.text))
    \o (IF l.sz > 0
        THEN <<Comma>> \o Field("sz", <<C("["), N(l.sz), Comma, N(Pt(50)), C("]")>>)
        ELSE <<>>)
    \o <<C("}")>>

\* "a":[{"a":{"p":{"a":1,"k":[keyframes]}}}]  or  "a":[]
Animators(l) ==
    Field("a", <<C("[")>>
        \o (IF l.xs = <<>> THEN <<>>
            ELSE <<C("{")>>
                 \o Field("a", <<C("{")>>
                      \o Field("p", <<C("{")>> \o Field("a", <<N(Unit)>>) \o <<Comma>>
                                    \o Field("k", <<C("[")>> \o Keyframes(l.xs, 1)
                                                  \o <<C("]")>>)
                                    \o <<C("}")>>)
                      \o <<C("}")>>)
                 \o <<C("}")>>)
        \o <<C("]")>>)

\* "t":{"d":{"k":[{"s":style,"t":0}]},"p":{},"m":{"a":{"a":0,"k":[0,0]}},"a":[...]}
TextData(l) ==
    Field("t", <<C("{")>>
        \o Field("d", <<C("{")>>
             \o Field("k", <<C("["), C("{")>> \o Field("s", TextStyle(l)) \o <<Comma>>
                           \o Field("t", <<N(0)>>) \o <<C("}"), C("]")>>)
             \o <<C("}")>>)
        \o <<Comma>> \o Field("p", <<C("{"), C("}")>>)
        \o <<Comma>>
        \o Field("m", <<C("{")>>
             \o Field("a", <<C("{")>> \o Field("a", <<N(0)>>) \o <<Comma>>
                           \o Field("k", <<C("["), N(0), Comma, N(0), C("]")>>)
                           \o <<C("}")>>)
             \o <<C("}")>>)
        \o <<Comma>> \o Animators(l)
        \o <<C("}")>>)

LayerTokens(l) ==
    <<C("{")>> \o Field("ty", <<N(Pt(l.ty))>>) \o <<Comma>>
    \o Field("nm", <<S(l.nm, 3)>>) \o <<Comma>>
    \o Transform \o <<Comma>>
    \o (IF l.ty = 5 THEN TextData(l) ELSE Field("shapes", <<C("["), C("]")>>))
    \o <<C("}")>>

RECURSIVE LayersTokens(_, _)
LayersTokens(ls, i) ==
    IF i > Len(ls) THEN <<>>
    ELSE LayerTokens(ls[i]) \o (IF i < Len(ls) THEN <<Comma>> ELSE <<>>)
         \o LayersTokens(ls, i + 1)

\* an asset {"id":"A","w":1,"h":1,"u":"x/","p":"g","e":0}
AssetTokens(a) ==
    <<C("{")>> \o Field("id", <<S(a.id, 3)>>) \o <<Comma>>
    \o Field("w", <<N(Unit)>>) \o <<Comma>>
    \o Field("h", <<N(Unit)>>) \o <<Comma>>
    \o Field("u", Quoted(a.u)) \o <<Comma>>
    \o Field("p", Quoted(a.p)) \o <<Comma>>
    \o Field("e", <<N(0)>>)
    \o <<C("}")>>

RECURSIVE AssetsTokens(_, _)
AssetsTokens(as, i) ==
    IF i > Len(as) THEN <<>>
    ELSE AssetTokens(as[i]) \o (IF i < Len(as) THEN <<Comma>> ELSE <<>>)
         \o AssetsTokens(as, i + 1)

\* {"w":w,"assets":[...],"layers":[...]}
DocumentWithAssets(w, as, ls) ==
    <<C("{")>> \o Field("w", <<N(w)>>) \o <<Comma>>
    \o Field("assets", <<C("[")>> \o AssetsTokens(as, 1) \o <<C("]")>>) \o <<Comma>>
    \o Field("layers", <<C("[")>> \o LayersTokens(ls, 1) \o <<C("]")>>)
    \o <<C("}")>>

Asset(id, u, p) == [id |-> id, u |-> u, p |-> p]

\* {"w":w,"layers":[...]}
Document(w, ls) ==
    <<C("{")>> \o Field("w", <<N(w)>>) \o <<Comma>>
    \o Field("layers", <<C("[")>> \o LayersTokens(ls, 1) \o <<C("]")>>)
    \o <<C("}")>>

TextLayer(nm, size, t, sz, xs) ==
    [nm |-> nm, ty |-> 5, size |-> size, text |-> t, sz |-> sz, xs |-> xs]
ShapeLayer(nm) ==
    [nm |-> nm, ty |-> 4, size |-> 0, text |-> <<>>, sz |-> 0, xs |-> <<>>]

----------------------------------------------------------------------------
(* Specification of one solver call *)

MaxGlyphs == 3

Glyphs(n) == [i \in 1..n |-> "a"]
SolverTexts ==
    {Glyphs(n) : n \in 1..MaxGlyphs} \cup {Glyphs(1) \o <<CR>> \o Glyphs(2)}
DocSizes == {Pt(4), Pt(10), Pt(20), Pt(40)}
MinSizes == {0, Pt(10), Pt(20)}
MaxSizes == {0, Pt(20), Pt(40)}
TargetWidths == {-Unit, 0, Pt(12), Pt(30), Pt(45), Pt(61), Pt(100)}
Modes == {"ACCURATE", "PIXEL_PERFECT"}

\* what validateTextLayerConfig lets through
ValidSizes(minSize, maxSize) ==
    /\ (minSize > 0 /\ maxSize > 0) => maxSize > minSize
    /\ minSize >= 0
    /\ maxSize >= 0

\* the locals before the call
NoSearch ==
    [kind |-> "none", running |-> FALSE, i |-> 0, min |-> 0, max |-> 0,
     bestSize |-> 0, probes |-> 0, result |-> 0]

\* the variables a specification does not use keep these values
NoSolver ==
    /\ fontInfo = [size |-> 0, text |-> <<>>]
    /\ config = [minSize |-> 0, maxSize |-> 0]
    /\ targetWidth = 0
    /\ mode = "ACCURATE"
    /\ optimalSize = 0
    /\ search = NoSearch

NoDocument ==
    /\ json_data = <<>>
    /\ original = <<>>
    /\ layers = <<>>
    /\ argLayerName = ""
    /\ argNewSize = 0
    /\ argWidthDiff = 0

NoOverrides ==
    /\ file = [configPath |-> "", isOpen |-> FALSE, entries |-> <<>>, images |-> <<>>]
    /\ layerOverrides = <<>>
    /\ imageLayers = <<>>
    /\ modifications = <<>>
    /\ solverCalls = <<>>

NoCore ==
    /\ render = NoRender
    /\ cli = NoCli
    /\ wasm = NoWasm

InitSolver ==
    /\ pc = "call"
    /\ NoCore
    /\ NoDocument
    /\ NoOverrides
    /\ fontInfo \in [size : DocSizes, text : {Glyphs(1)}]
    /\ config \in {c \in [minSize : MinSizes, maxSize : MaxSizes] :
                     ValidSizes(c.minSize, c.maxSize)}
    /\ text \in SolverTexts
    /\ targetWidth \in TargetWidths
    /\ mode \in Modes
    /\ optimalSize = 0
    /\ search = NoSearch

Solve ==
    /\ pc = "call"
    /\ optimalSize' = calculateOptimalFontSize(fontInfo, config, text, targetWidth, mode)
    /\ pc' = "done"
    /\ UNCHANGED <<coreVars, fontInfo, config, text, targetWidth, mode, search, docVars, procVars>>

NextSolver == Solve

SpecSolver == InitSolver /\ [][NextSolver]_vars

----------------------------------------------------------------------------
(* Specification of one solver call, step by step: one action per          *)
(* iteration of a loop.  A size of 4000 points makes the downward search   *)
(* start from an interval that fifteen halvings leave wider than 0.1.      *)

SearchSizes == DocSizes \cup {Pt(4000)}

InitSearch ==
    /\ pc = "call"
    /\ NoCore
    /\ NoDocument
    /\ NoOverrides
    /\ fontInfo \in [size : SearchSizes, text : {Glyphs(1)}]
    /\ config \in {c \in [minSize : MinSizes, maxSize : MaxSizes] :
                     ValidSizes(c.minSize, c.maxSize)}
    /\ text \in SolverTexts
    /\ fontInfo.size = Pt(4000) => text = Glyphs(1)
    /\ targetWidth \in TargetWidths
    /\ mode \in Modes
    /\ optimalSize = 0
    /\ search = NoSearch

\* the locals after a step; the call is over when the loop is
Stepped(next) ==
    /\ search' = next
    /\ pc' = IF next.running THEN "search" ELSE "done"
    /\ optimalSize' = IF next.running THEN optimalSize ELSE next.result

Begin ==
    /\ pc = "call"
    /\ Stepped(SearchStart(fontInfo, config, text, targetWidth, mode))
    /\ UNCHANGED <<coreVars, fontInfo, config, text, targetWidth, mode, docVars, procVars>>

ProbeUp ==
    /\ pc = "search"
    /\ search.kind = "up"
    /\ Stepped(UpStep(search, config, text, targetWidth, mode))
    /\ UNCHANGED <<coreVars, fontInfo, config, text, targetWidth, mode, docVars, procVars>>

ProbeDown ==
    /\ pc = "search"
    /\ search.kind = "down"
    /\ Stepped(DownStep(search, text, targetWidth, mode))
    /\ UNCHANGED <<coreVars, fontInfo, config, text, targetWidth, mode, docVars, procVars>>

NextSearch == Begin \/ ProbeUp \/ ProbeDown

SpecSearch == InitSearch /\ [][NextSearch]_vars

\* the call is one thread that runs until it returns
SpecSearchFair == SpecSearch /\ WF_vars(NextSearch)

----------------------------------------------------------------------------
(* Specification of the mutator calls: modifyTextLayerInJson and           *)
(* adjustTextAnimatorPosition on a document of two layers, alone and one   *)
(* after the other as in the second pass of processLayerOverrides.         *)

Xs(n) == [i \in 1..n |-> "x"]

\* X values of position keyframes: -679.25, 30 and -50.5
KeyframeXs == {<<>>, <<-(Pt(679) + Unit \div 4), Pt(30)>>, <<-(Pt(50) + Unit \div 2)>>}

LayersNamed(nm, size, t) ==
    {TextLayer(nm, size, t, sz, xs) : sz \in {0, Pt(100)}, xs \in KeyframeXs}
    \cup {ShapeLayer(nm)}

LayerLists ==
    LET as == LayersNamed("A", Pt(20), Xs(2))
        bs == {l \in LayersNamed("B", Pt(40), Xs(3)) : l.sz = 0}
    IN {<<a, b>> : a \in as, b \in bs} \cup {<<b, a>> : a \in as, b \in bs}

DocWidth == Pt(720)

MaxTextLen == 2
TextAlphabet == {"x", BS, QT, CR, LF, ETX, TAB}
RECURSIVE TextsUpTo(_)
TextsUpTo(n) ==
    IF n = 0 THEN {<<>>}
    ELSE LET shorter == TextsUpTo(n - 1)
         IN shorter \cup {t \o <<c>> : t \in {u \in shorter : Len(u) = n - 1},
                                       c \in TextAlphabet}
MutatorTexts ==
    TextsUpTo(MaxTextLen)
    \cup {EscapedETX, <<"x">> \o EscapedETX \o <<QT>>, <<BS>> \o EscapedETX}

WidthDiffs == {-Pt(5), -Tenth, 0, Tenth, Pt(5), Pt(33) + Unit \div 4}
NewSizes == {Pt(12) + Unit \div 4, Pt(30)}
LayerNames == {"A", "B", "Z"}

InitMutate ==
    /\ pc = "call"
    /\ NoCore
    /\ NoSolver
    /\ NoOverrides
    /\ layers \in LayerLists
    /\ original = Document(DocWidth, layers)
    /\ json_data = original
    /\ argLayerName \in LayerNames
    /\ \/ /\ text \in {Xs(1), Xs(4)}
          /\ argNewSize \in NewSizes
          /\ argWidthDiff \in WidthDiffs
       \/ /\ text \in MutatorTexts
          /\ layers[1].nm = "A" /\ layers[1].ty = 5 /\ layers[1].sz = 0
          /\ layers[2].ty = 5 /\ layers[2].xs = <<>>
          /\ argLayerName \in {"A", "B"}
          /\ argNewSize = Pt(30)
          /\ argWidthDiff = 0

Mutate ==
    /\ pc = "call"
    /\ json_data' = modifyTextLayerInJson(json_data, argLayerName, text, argNewSize)
    /\ pc' = "modified"
    /\ UNCHANGED <<coreVars, text, solverVars, original, layers, argLayerName, argNewSize, argWidthDiff,
                   procVars>>

\* the position compensation, on the document as given (pc = "call") or
\* after the mutation
Adjust ==
    /\ pc \in {"call", "modified"}
    /\ json_data' = adjustTextAnimatorPosition(json_data, argLayerName, argWidthDiff)
    /\ pc' = IF pc = "call" THEN "adjusted" ELSE "compensated"
    /\ UNCHANGED <<coreVars, text, solverVars, original, layers, argLayerName, argNewSize, argWidthDiff,
                   procVars>>

NextMutate == Mutate \/ Adjust

SpecMutate == InitMutate /\ [][NextMutate]_vars

----------------------------------------------------------------------------
(* Specification of processLayerOverrides: one call on a document of two   *)
(* layers with an override file of one or two text-layer entries.          *)

DefaultTextPadding == 97

Entry(name, minSize, maxSize, textBoxWidth, value, fallbackText) ==
    [name |-> name, minSize |-> minSize, maxSize |-> maxSize,
     textBoxWidth |-> textBoxWidth, value |-> value, fallbackText |-> fallbackText]

WrittenMinSizes == {0, Pt(10), Pt(20)}
WrittenMaxSizes == {0, Pt(10), Pt(40)}

\* every entry for one layer
Entries ==
    {Entry(name, minSize, maxSize, textBoxWidth, value, fallbackText) :
        name \in {"A", "B"}, minSize \in WrittenMinSizes, maxSize \in WrittenMaxSizes,
        textBoxWidth \in {0, Pt(100)}, value \in {<<>>, Xs(1), Xs(6)},
        fallbackText \in {<<>>, Xs(2)}}

\* files of two entries: any sizes for layer A, then an entry that may
\* name the same layer
EntryLists ==
    {<<e>> : e \in Entries}
    \cup {<<Entry("A", minSize, maxSize, 0, Xs(1), <<>>), Entry(name, sizes[1], sizes[2], 0, Xs(1), <<>>)>> :
            minSize \in WrittenMinSizes, maxSize \in WrittenMaxSizes, name \in {"A", "B"},
            sizes \in {<<0, 0>>, <<Pt(10), Pt(40)>>, <<Pt(20), Pt(10)>>}}

\* entries for layer A with one number written with a minus sign
NegativeEntries ==
    {Entry("A", -Pt(5), Pt(40), 0, Xs(1), <<>>),
     Entry("A", Pt(10), -Pt(40), 0, Xs(1), <<>>),
     Entry("A", Pt(10), Pt(40), -Pt(100), Xs(1), <<>>)}

\* such an entry alone, or followed by an entry for layer B
NegativeEntryLists ==
    {<<e>> : e \in NegativeEntries}
    \cup {<<e, Entry("B", Pt(10), Pt(40), 0, Xs(1), <<>>)>> : e \in NegativeEntries}

\* entries under a name that no layer of the documents has
AbsentEntryLists == {<<Entry(name, 0, 0, 0, Xs(1), <<>>)>> : name \in {".", "Z"}}

\* an entry for layer A whose text box is narrower than its fallback text
\* at minSize
OverflowEntryLists == {<<Entry("A", Pt(20), Pt(40), Pt(30), Xs(6), Xs(2))>>}

\* a shape layer between two text layers
ThreeLayers ==
    <<TextLayer("A", Pt(20), Xs(2), 0, <<>>), ShapeLayer("B"),
      TextLayer("Z", Pt(40), Xs(3), 0, <<>>)>>

ProcessLayerLists ==
    {ThreeLayers} \cup
    {ls \in LayerLists :
        /\ \A k \in 1..2 : ls[k].nm = "A" =>
              /\ ls[k].ty = 5
              /\ ls[k].xs \in {<<>>, <<-(Pt(50) + Unit \div 2)>>}
              /\ ls[k].xs = <<>> => ls[k].sz = 0
        /\ \A k \in 1..2 : ls[k].nm = "B" =>
              ls[k].ty = 4 \/ Len(ls[k].xs) = 2}

\* the documents a file is run against: a file of one entry for layer A
\* meets every document that has layer A first; a file of one entry for
\* layer B carries a text value only; a file of two entries meets the
\* documents of two text layers; an entry under a name no layer has meets
\* the documents without animators; the document of three layers meets the
\* file with a text value for its shape layer
ProcessInputs(ls, es) ==
    \/ /\ Len(ls) = 2
       /\ Len(es) = 1 /\ es[1].name = "A"
       /\ ls[1].nm = "A"
    \/ /\ Len(ls) = 2
       /\ Len(es) = 1 /\ es[1].name = "B"
       /\ es[1].textBoxWidth = 0 /\ es[1].value = Xs(1) /\ es[1].fallbackText = <<>>
       /\ <<es[1].minSize, es[1].maxSize>> \in {<<0, 0>>, <<Pt(10), Pt(40)>>}
    \/ /\ Len(ls) = 2
       /\ Len(es) = 2
       /\ \A k \in 1..2 : ls[k].ty = 5 /\ ls[k].sz = 0 /\ ls[k].xs # <<>>
    \/ /\ Len(ls) = 2
       /\ es \in AbsentEntryLists
       /\ ls[1].xs = <<>> /\ ls[2].xs = <<>>
    \/ /\ Len(ls) = 3
       /\ es = <<Entry("B", 0, 0, 0, Xs(1), <<>>)>>

\* what an uninitialized float of FontInfo may hold
Garbage == {0, Pt(50)}

InitProcess ==
    /\ pc = "call"
    /\ NoCore
    /\ fontInfo = [size |-> 0, text |-> <<>>]
    /\ config = [minSize |-> 0, maxSize |-> 0]
    /\ targetWidth = 0
    /\ optimalSize = 0
    /\ search = NoSearch
    /\ mode = "ACCURATE"
    /\ text = <<>>
    /\ layers \in ProcessLayerLists
    /\ file \in [configPath : {"overrides.json"}, isOpen : {TRUE},
                  entries : EntryLists \cup NegativeEntryLists \cup AbsentEntryLists
                            \cup OverflowEntryLists,
                  images : {<<>>}]
    /\ ProcessInputs(layers, file.entries)
    /\ original = Document(DocWidth, layers)
    /\ json_data = original
    /\ argLayerName = ""
    /\ argNewSize = 0
    /\ argWidthDiff = 0
    /\ layerOverrides = <<>>
    /\ imageLayers = <<>>
    /\ modifications = <<>>
    /\ solverCalls = <<>>

\* what the call leaves behind
Returned(result) ==
    /\ json_data' = result.json
    /\ layerOverrides' = result.overrides
    /\ modifications' = result.mods
    /\ solverCalls' = result.calls

Process ==
    /\ pc = "call"
    /\ \E garbage \in [DOMAIN parseLayerOverrides(file) -> Garbage] :
          Returned(processLayerOverrides(json_data, file, DefaultTextPadding, mode, garbage))
    /\ pc' = "done"
    /\ UNCHANGED <<coreVars, text, solverVars, original, layers, argLayerName, argNewSize, argWidthDiff,
                   file, imageLayers>>

NextProcess == Process

SpecProcess == InitProcess /\ [][NextProcess]_vars

----------------------------------------------------------------------------
(* Specification of the image overrides: parseImageLayers on an override   *)
(* file with image entries, and processLayerOverrides with that file on a  *)
(* document with assets.                                                   *)

ImageEntry(id, filePath, fileName) ==
    [id |-> id, filePath |-> filePath, fileName |-> fileName]

\* directories as written: none, d/, d, /w/d, m/ (no such directory), URLs
WrittenFilePaths ==
    {<<>>, <<"d", Slash>>, <<"d">>, <<Slash, "w", Slash, "d">>, <<"m", Slash>>,
     Http \o <<"x">>, Https \o <<"x">>}

\* file names as written: none, f, m (no such file), d (a directory), d/f
WrittenFileNames == {<<>>, <<"f">>, <<"m">>, <<"d">>, <<"d", Slash, "f">>}

ImageEntries ==
    {ImageEntry("A", filePath, fileName) :
        filePath \in WrittenFilePaths, fileName \in WrittenFileNames}

\* files of one entry for asset A, and of two entries where the second
\* may name the same asset
ImageEntryLists ==
    {<<>>}
    \cup {<<e>> : e \in ImageEntries}
    \cup {<<ImageEntry("A", first[1], first[2]), ImageEntry(id, second[1], second[2])>> :
            first \in {<<<<>>, <<>>>>, <<Http \o <<"x">>, <<"f">>>>, <<<<>>, <<"m">>>>,
                       <<<<"d", Slash>>, <<>>>>},
            id \in {"A", "B"},
            second \in {<<<<"d">>, <<"f">>>>, <<<<"d", Slash>>, <<>>>>, <<<<>>, <<>>>>}}

\* the assets of the document: its image directory is x/, its files g and h
AssetLists ==
    {<<>>,
     <<Asset("A", <<"x", Slash>>, <<"g">>)>>,
     <<Asset("B", <<"x", Slash>>, <<"h">>)>>,
     <<Asset("B", <<>>, <<"h">>), Asset("A", <<"x", Slash>>, <<"g">>)>>}

ImageLayerList == <<TextLayer("A", Pt(20), Xs(2), 0, <<>>), ShapeLayer("B")>>

InitImages ==
    /\ pc = "call"
    /\ NoCore
    /\ NoSolver
    /\ text = <<>>
    /\ layers = ImageLayerList
    /\ file \in [configPath : {"overrides.json"}, isOpen : BOOLEAN,
                  entries : {<<>>, <<Entry("A", 0, 0, 0, Xs(1), <<>>)>>},
                  images : ImageEntryLists]
    /\ original \in {DocumentWithAssets(DocWidth, as, layers) : as \in AssetLists}
    /\ json_data = original
    /\ argLayerName = ""
    /\ argNewSize = 0
    /\ argWidthDiff = 0
    /\ layerOverrides = <<>>
    /\ imageLayers = <<>>
    /\ modifications = <<>>
    /\ solverCalls = <<>>

\* one call of parseImageLayers on the file
ParseImages ==
    /\ pc = "call"
    /\ imageLayers' = parseImageLayers(file)
    /\ pc' = "parsed"
    /\ UNCHANGED <<coreVars, text, solverVars, docVars, file, layerOverrides, modifications, solverCalls>>

NextImages == ParseImages \/ Process

SpecImages == InitImages /\ [][NextImages]_vars

----------------------------------------------------------------------------
(* Specification of the mutation and the extraction on one document:       *)
(* modifyTextLayerInJson once or twice, and extractFontInfoFromJson on the *)
(* mutated document.  One layer of the document is named with a regex      *)
(* metacharacter; the new texts hold quotes, backslashes, line breaks and  *)
(* braces.                                                                 *)

RoundTripLayerLists ==
    LET as == {l \in LayersNamed("A", Pt(20), Xs(2)) : l.xs = <<>>}
        ds == {l \in LayersNamed(".", Pt(40), Xs(3)) : l.xs = <<>> /\ l.sz = 0}
    IN {<<a, d>> : a \in as, d \in ds} \cup {<<d, a>> : a \in as, d \in ds}

RoundTripNames == {"A", ".", "Z"}

RoundTripTexts ==
    TextsUpTo(1)
    \cup {EscapedETX, <<"x">> \o EscapedETX \o <<QT>>, <<BS>> \o EscapedETX,
          <<"x", QT>>, <<BS, QT>>, <<BS, "r">>, <<"x", CR, "x">>,
          <<"{">>, <<"}">>, <<"x", "}">>, <<"{", "x", "}">>}

InitRoundTrip ==
    /\ pc = "call"
    /\ NoCore
    /\ NoOverrides
    /\ fontInfo = EmptyFontInfo(0)
    /\ config = [minSize |-> 0, maxSize |-> 0]
    /\ targetWidth = 0
    /\ mode = "ACCURATE"
    /\ optimalSize = 0
    /\ search = NoSearch
    /\ layers \in RoundTripLayerLists
    /\ original = Document(DocWidth, layers)
    /\ json_data = original
    /\ argLayerName \in RoundTripNames
    /\ text \in RoundTripTexts
    /\ argNewSize \in NewSizes
    /\ argWidthDiff = 0

\* the same call once more, on the document the first call left
MutateAgain ==
    /\ pc = "modified"
    /\ json_data' = modifyTextLayerInJson(json_data, argLayerName, text, argNewSize)
    /\ pc' = "modified twice"
    /\ UNCHANGED <<coreVars, text, solverVars, original, layers, argLayerName, argNewSize,
                   argWidthDiff, procVars>>

\* extractFontInfoFromJson on the mutated document
ExtractMutated ==
    /\ pc = "modified"
    /\ \E garbage \in Garbage :
          fontInfo' = extractFontInfoFromJson(json_data, argLayerName, garbage)
    /\ pc' = "read"
    /\ UNCHANGED <<coreVars, text, config, targetWidth, mode, optimalSize, search, docVars,
                   procVars>>

NextRoundTrip == Mutate \/ MutateAgain \/ ExtractMutated

SpecRoundTrip == InitRoundTrip /\ [][NextRoundTrip]_vars

----------------------------------------------------------------------------
(* Specification of the line-break normalizations: of                      *)
(* normalizeLottieTextNewlines to the characters of a document and of the  *)
(* normalization of parseLayerOverrides to an override value, each applied *)
(* twice, and of the normalization of extractFontInfoFromJson to the text  *)
(* it captured.  The strings are made of up to MaxPieces pieces that are   *)
(* the escape sequence of U+0003, parts of it, the parts of the escape     *)
(* sequences of CR and LF, and the characters the normalizations read and  *)
(* write.                                                                  *)

MaxPieces == 3

Pieces ==
    {EscapedETX, <<BS>>, <<"u">>, <<"0">>, <<"3">>, <<"r">>, <<"n">>, <<ETX>>,
     <<CR>>, <<LF>>,
     <<BS, "u", "0", "0">>, <<"0", "3">>, <<"u", "0", "0", "0", "3">>}

RECURSIVE PiecesUpTo(_)
PiecesUpTo(n) ==
    IF n = 0 THEN {<<>>}
    ELSE PiecesUpTo(n - 1)
         \cup {t \o piece : t \in PiecesUpTo(n - 1), piece \in Pieces}

InitNormalize ==
    /\ pc \in {"normalize", "parse", "extract"}
    /\ NoCore
    /\ NoSolver
    /\ NoOverrides
    /\ layers = <<>>
    /\ argLayerName = ""
    /\ argNewSize = 0
    /\ argWidthDiff = 0
    /\ original \in PiecesUpTo(MaxPieces)
    /\ json_data = IF pc = "normalize" THEN original ELSE <<>>
    /\ text = IF pc \in {"parse", "extract"} THEN original ELSE <<>>

Normalize ==
    /\ pc \in {"normalize", "normalized"}
    /\ json_data' = normalizeLottieTextNewlines(json_data)
    /\ pc' = IF pc = "normalize" THEN "normalized" ELSE "normalized twice"
    /\ UNCHANGED <<coreVars, text, solverVars, original, layers, argLayerName, argNewSize, argWidthDiff,
                   procVars>>

NormalizeOverrideValue ==
    /\ pc \in {"parse", "parsed"}
    /\ text' = NormalizeValue(text)
    /\ pc' = IF pc = "parse" THEN "parsed" ELSE "parsed twice"
    /\ UNCHANGED <<coreVars, solverVars, docVars, procVars>>

\* the normalization of the text that extractFontInfoFromJson captured
NormalizeExtractedText ==
    /\ pc = "extract"
    /\ text' = NormalizeExtracted(text)
    /\ pc' = "extracted"
    /\ UNCHANGED <<coreVars, solverVars, docVars, procVars>>

NextNormalize == Normalize \/ NormalizeOverrideValue \/ NormalizeExtractedText

SpecNormalize == InitNormalize /\ [][NextNormalize]_vars

----------------------------------------------------------------------------
(* Specification of one renderFrames call of up to MaxFrames frames, its   *)
(* worker threads and its writer thread interleaved.  A wake-up of the     *)
(* writer without a notification is possible but never owed.               *)

MaxFrames == 3

InitRender ==
    /\ pc = "call"
    /\ NoSolver
    /\ text = <<>>
    /\ NoDocument
    /\ NoOverrides
    /\ render \in {RenderCall(stream_mode, num_frames) :
                       stream_mode \in BOOLEAN, num_frames \in 0 .. MaxFrames}
    /\ cli = NoCli
    /\ wasm = NoWasm

Rendering(next) ==
    /\ render' = next
    /\ pc' = IF next.returned THEN "done" ELSE "running"
    /\ UNCHANGED <<text, solverVars, docVars, procVars, cli, wasm>>

StartRender ==
    /\ pc = "call"
    /\ \E setup \in BOOLEAN : Rendering(Launch(render, setup))

\* worker thread t renders its next frame
Renders(t) ==
    /\ pc = "running"
    /\ render.thread_frames[t] # <<>>
    /\ \E outcome \in Outcomes(render) :
           Rendering(render_frame_worker(render, t, outcome))

\* worker thread t leaves its loop and ends
Ends(t) ==
    /\ pc = "running"
    /\ render.thread_frames[t] = <<>>
    /\ ~render.finished[t]
    /\ Rendering(WorkerEnd(render, t))

RenderFrame == \E t \in Threads : Renders(t)

EndWorker == \E t \in Threads : Ends(t)

\* the writer thread is in its loop and not blocked
WriterRuns ==
    /\ pc = "running"
    /\ render.stream_mode
    /\ render.next_frame_to_write < render.num_frames
    /\ ~render.waiting

WriterWait ==
    /\ WriterRuns
    /\ WriterWaits(render)
    /\ Rendering(Wait(render))

WriteFrame ==
    /\ WriterRuns
    /\ ~WriterWaits(render)
    /\ \E good \in {FALSE, render.cout_good} : Rendering(writer_thread(render, good))

SpuriousWake ==
    /\ pc = "running"
    /\ render.waiting
    /\ Rendering(Wake(render))

ReturnRender ==
    /\ pc = "running"
    /\ Joined(render)
    /\ Rendering(renderFrames(render))

NextRender ==
    \/ StartRender
    \/ RenderFrame
    \/ EndWorker
    \/ WriterWait
    \/ WriteFrame
    \/ SpuriousWake
    \/ ReturnRender

SpecRender == InitRender /\ [][NextRender]_vars

\* every thread that can take a step takes one: the main thread, each
\* worker, and the writer when it is not blocked
SpecRenderFair ==
    /\ SpecRender
    /\ WF_vars(StartRender \/ ReturnRender)
    /\ \A t \in Threads : WF_vars(Renders(t) \/ Ends(t))
    /\ WF_vars(WriterWait \/ WriteFrame)

----------------------------------------------------------------------------
(* Specification of one run of main on a command line of up to MaxArgs     *)
(* arguments: parseArguments an argument a step, then main's return.       *)

MaxArgs == 3

ArgWords ==
    {"--png", "--stream", "--version", "--help", "--text-config", "--text-padding",
     "--text-measurement-mode", "0.5", "FAST", "in.json", "out", "--bogus"}

ArgvUpTo(n) == UNION {[1 .. k -> ArgWords] : k \in 0 .. n}

InitMain ==
    /\ pc = "call"
    /\ NoSolver
    /\ text = <<>>
    /\ NoDocument
    /\ NoOverrides
    /\ render = NoRender
    /\ wasm = NoWasm
    /\ cli \in {[NoCli EXCEPT !.argv = argv] : argv \in ArgvUpTo(MaxArgs)}

Running(next) ==
    /\ cli' = next
    /\ pc' = IF next.exited THEN "done" ELSE IF next.returned THEN "parsed" ELSE "call"
    /\ UNCHANGED <<text, solverVars, docVars, procVars, render, wasm>>

ParseArgument ==
    /\ pc = "call"
    /\ cli.i <= Len(cli.argv)
    /\ Running(parseArguments(cli, TRUE))

FinishParse ==
    /\ pc = "call"
    /\ cli.i > Len(cli.argv)
    /\ \E created \in BOOLEAN : Running(parseArguments(cli, created))

Main ==
    /\ pc = "parsed"
    /\ \E setup \in BOOLEAN, rendered \in {0, 1} : Running(main(cli, setup, rendered))

NextMain == ParseArgument \/ FinishParse \/ Main

SpecMain == InitMain /\ [][NextMain]_vars

----------------------------------------------------------------------------
(* Specification of the WASM interface: up to MaxCalls calls of its        *)
(* functions in any order, from the state in which the module is loaded.   *)

MaxCalls == 4

InitWasm ==
    /\ pc = "call"
    /\ NoSolver
    /\ text = <<>>
    /\ NoDocument
    /\ NoOverrides
    /\ render = NoRender
    /\ cli = NoCli
    /\ wasm = NoWasm

Calling(next) ==
    /\ wasm' = next
    /\ pc' = IF next.calls = MaxCalls THEN "done" ELSE "call"
    /\ UNCHANGED <<text, solverVars, docVars, procVars, render, cli>>

InitAnimation ==
    /\ pc = "call"
    /\ \E width \in {720, 1080}, outcome \in {"threw", "not parsed", "created"} :
           Calling(lotio_init(wasm, width, outcome))

RegisterFont ==
    /\ pc = "call"
    /\ \E fontName \in {"Font", "Bold"}, valid \in BOOLEAN,
          outcome \in {"no data", "threw", "registered"} :
           Calling(lotio_register_font(wasm, fontName, valid, outcome))

Cleanup ==
    /\ pc = "call"
    /\ Calling(lotio_cleanup(wasm))

GetInfo ==
    /\ pc = "call"
    /\ Calling(lotio_get_info(wasm))

RenderRgba ==
    /\ pc = "call"
    /\ \E fits \in BOOLEAN, failure \in {0, 3, 4, 5, 6, 7} :
           Calling(lotio_render_frame(wasm, fits, failure))

RenderPng ==
    /\ pc = "call"
    /\ \E failure \in {0, 2, 3, 4} : Calling(lotio_render_frame_png(wasm, failure))

NextWasm == InitAnimation \/ RegisterFont \/ Cleanup \/ GetInfo \/ RenderRgba \/ RenderPng

SpecWasm == InitWasm /\ [][NextWasm]_vars

----------------------------------------------------------------------------
(* Properties of the solver, checked under SpecSolver *)

\* C1 as stated: whenever calculateOptimalFontSize returns a size other than
\* -1, the text measured at that size is no wider than targetWidth.
C1_AsStated ==
    (pc = "done" /\ optimalSize # NoFit)
        => measureTextWidth(optimalSize, text, mode) <= targetWidth

\* C1: for a positive targetWidth, whenever calculateOptimalFontSize returns
\* a size other than -1, the text measured at that size is no wider than
\* targetWidth.
C1_FitsTarget ==
    (pc = "done" /\ targetWidth > 0 /\ optimalSize # NoFit)
        => measureTextWidth(optimalSize, text, mode) <= targetWidth

\* a call with a positive target where the text overflows at the document's
\* size and the downward search returns a smaller size
C1_Witness ==
    /\ pc = "done"
    /\ targetWidth > 0
    /\ measureTextWidth(fontInfo.size, text, mode) > targetWidth
    /\ optimalSize # NoFit
    /\ optimalSize < fontInfo.size
    /\ optimalSize > config.minSize

\* C2: if the text measured at minSize is wider than targetWidth (auto-fit
\* requested, positive target), calculateOptimalFontSize returns -1.
C2_NoFitBelowMin ==
    (/\ pc = "done"
     /\ config.minSize > 0 /\ config.maxSize > 0
     /\ targetWidth > 0
     /\ measureTextWidth(config.minSize, text, mode) > targetWidth)
        => optimalSize = NoFit

\* C3: a returned size other than -1 lies in [minSize, maxSize] (auto-fit
\* requested, positive target).
C3_WithinBounds ==
    (/\ pc = "done"
     /\ config.minSize > 0 /\ config.maxSize > 0
     /\ targetWidth > 0
     /\ optimalSize # NoFit)
        => (config.minSize <= optimalSize /\ optimalSize <= config.maxSize)

----------------------------------------------------------------------------
(* Reading a document by its construction: where the tokens of each layer  *)
(* of `layers` lie in a document that was built from them                  *)

HeadLen == Len(Document(DocWidth, <<>>)) - 2
TailLen == Len(<<C("]"), C("}")>>)

LayerIndex(name) == First({k \in 1..Len(layers) : layers[k].nm = name})

RECURSIVE TokensBefore(_)
TokensBefore(k) ==
    IF k = 1 THEN HeadLen
    ELSE TokensBefore(k - 1) + Len(LayerTokens(layers[k - 1])) + 1

RECURSIVE TokensAfter(_)
TokensAfter(k) ==
    IF k = Len(layers) THEN TailLen
    ELSE TokensAfter(k + 1) + Len(LayerTokens(layers[k + 1])) + 1

\* the tokens at the place of layer k in doc when `changed` is the layer
\* that was mutated: a layer before it is counted from the start of the
\* document, a layer after it from the end
LayerIn(doc, k, changed) ==
    LET n == Len(LayerTokens(layers[k]))
    IN IF k < changed
       THEN SubSeq(doc, TokensBefore(k) + 1, TokensBefore(k) + n)
       ELSE SubSeq(doc, Len(doc) - TokensAfter(k) - n + 1, Len(doc) - TokensAfter(k))

\* indexes of "s":[ in doc: the keyframe values, and the X of the j-th
XIndexes(doc) ==
    {i \in 1..Len(doc) - 4 :
        IsStr(doc[i], "s") /\ IsCh(doc[i + 1], ":") /\ IsCh(doc[i + 2], "[")}

NthX(doc, j) ==
    LET at == CHOOSE i \in XIndexes(doc) :
                  Cardinality({h \in XIndexes(doc) : h < i}) = j - 1
    IN IF IsCh(doc[at + 3], "-") THEN -doc[at + 4].n ELSE doc[at + 3].n

RECURSIVE KeyframesBefore(_)
KeyframesBefore(k) ==
    IF k = 1 THEN 0 ELSE KeyframesBefore(k - 1) + Len(layers[k - 1].xs)

\* X of keyframe j of layer k
XOf(doc, k, j) == NthX(doc, KeyframesBefore(k) + j)

\* index of the "nm" of layer k
NameIndex(doc, k) ==
    First({i \in 1..Len(doc) - 2 :
             IsStr(doc[i], "nm") /\ IsCh(doc[i + 1], ":") /\ IsStr(doc[i + 2], layers[k].nm)})

\* index of the opening quote of the text value of layer k
TextOpen(doc, k) ==
    First({i \in NameIndex(doc, k)..Len(doc) - 2 :
             IsStr(doc[i], "t") /\ IsCh(doc[i + 1], ":") /\ IsCh(doc[i + 2], QT)}) + 2

\* the characters of the text value of layer k up to its closing quote
TextOf(doc, k) ==
    LET open == TextOpen(doc, k)
        close == First({i \in open + 1..Len(doc) :
                          IsCh(doc[i], QT) /\ ~IsCh(doc[i - 1], BS)})
    IN [i \in 1..close - open - 1 |-> doc[open + i].s]

\* the number of the size field of layer k
SizeOf(doc, k) ==
    LET at == First({i \in NameIndex(doc, k)..Len(doc) - 2 :
                       IsStr(doc[i], "s") /\ IsCh(doc[i + 1], ":") /\ IsDigit(doc[i + 2])})
    IN doc[at + 2].n

\* number of tokens of the original document from the closing quote of the
\* text value of layer k to the end
FromTextClose(k) == Len(original) - (TextOpen(original, k) + Len(layers[k].text))

\* the characters between the quotes of the text value of layer k
Written(doc, k) ==
    LET open == TextOpen(doc, k)
        close == Len(doc) - FromTextClose(k) + 1
    IN [i \in 1..close - open - 1 |-> doc[open + i].s]

\* the string a JSON parser reads from the characters between two quotes;
\* "invalid" marks a character JSON does not allow there
RECURSIVE JsonDecode(_, _)
JsonDecode(w, i) ==
    IF i > Len(w) THEN <<>>
    ELSE IF w[i] = BS
    THEN IF HasAt(w, EscapedCR, i) THEN <<CR>> \o JsonDecode(w, i + 6)
         ELSE IF HasAt(w, EscapedETX, i) THEN <<ETX>> \o JsonDecode(w, i + 6)
         ELSE IF HasAt(w, <<BS, BS>>, i) THEN <<BS>> \o JsonDecode(w, i + 2)
         ELSE IF HasAt(w, <<BS, QT>>, i) THEN <<QT>> \o JsonDecode(w, i + 2)
         ELSE IF HasAt(w, <<BS, "t">>, i) THEN <<TAB>> \o JsonDecode(w, i + 2)
         ELSE IF HasAt(w, <<BS, "n">>, i) THEN <<LF>> \o JsonDecode(w, i + 2)
         ELSE IF HasAt(w, <<BS, "r">>, i) THEN <<CR>> \o JsonDecode(w, i + 2)
         ELSE <<"invalid">> \o JsonDecode(w, i + 1)
    ELSE IF w[i] \in {QT, CR, LF, ETX, TAB}
    THEN <<"invalid">> \o JsonDecode(w, i + 1)
    ELSE <<w[i]>> \o JsonDecode(w, i + 1)

\* t with every line break character (LF, ETX) replaced by CR
LineBreaksToCR(t) == [i \in 1..Len(t) |-> IF t[i] \in {LF, ETX} THEN CR ELSE t[i]]

\* t with the six characters \u0003 and every LF and ETX replaced by CR
RECURSIVE MarkersToCR(_, _)
MarkersToCR(t, i) ==
    IF i > Len(t) THEN <<>>
    ELSE IF HasAt(t, EscapedETX, i) THEN <<CR>> \o MarkersToCR(t, i + 6)
    ELSE IF t[i] \in {LF, ETX} THEN <<CR>> \o MarkersToCR(t, i + 1)
    ELSE <<t[i]>> \o MarkersToCR(t, i + 1)

----------------------------------------------------------------------------
(* Properties of the mutator calls, checked under SpecMutate *)

\* C7: after adjustTextAnimatorPosition(json, layer, widthDiff), every
\* negative X of the layer's animated position keyframes is the original X
\* minus widthDiff if widthDiff > 0.1, and the original X otherwise.
C7_KeyframeX ==
    (pc = "adjusted" /\ LayerIndex(argLayerName) # 0)
        => LET k == LayerIndex(argLayerName)
           IN \A j \in 1..Len(layers[k].xs) :
                 layers[k].xs[j] < 0
                    => XOf(json_data, k, j) =
                          IF argWidthDiff > Tenth THEN layers[k].xs[j] - argWidthDiff
                          ELSE layers[k].xs[j]

\* C8: after modifyTextLayerInJson for a text layer A, alone or followed by
\* the position compensation for a wider text, the tokens of every other
\* layer are those the document had before.
C8_OtherLayersIntact ==
    (/\ pc \in {"modified", "compensated"}
     /\ LayerIndex(argLayerName) # 0
     /\ layers[LayerIndex(argLayerName)].ty = 5
     /\ argWidthDiff > Tenth)
        => \A k \in 1..Len(layers) :
              k # LayerIndex(argLayerName)
                 => LayerIn(json_data, k, LayerIndex(argLayerName)) = LayerTokens(layers[k])

----------------------------------------------------------------------------
(* Properties of processLayerOverrides, checked under SpecProcess *)

\* C4: for a text layer whose only override has minSize = maxSize = 0, the
\* size in the output document is the layer's original size, and without a
\* value override the text is the original text.
C4_NoAutoFit ==
    (pc = "done" /\ Len(file.entries) = 1)
        => \A k \in 1..Len(layers) :
              (/\ layers[k].ty = 5
               /\ layers[k].nm \in DOMAIN layerOverrides
               /\ layerOverrides[layers[k].nm].minSize = 0
               /\ layerOverrides[layers[k].nm].maxSize = 0)
                 => /\ SizeOf(json_data, k) = layers[k].size
                    /\ layerOverrides[layers[k].nm].value = <<>>
                          => TextOf(json_data, k) = layers[k].text

\* C5: whenever the solver returned -1 for the primary text of a layer,
\* the modification recorded for the layer has the override's fallbackText
\* as textToUse, and the text of the layer in the output document is that
\* fallback text.
C5_FallbackText ==
    pc = "done"
        => \A i \in 1..Len(modifications) :
              solverCalls[i].returned = NoFit
                 => LET name == modifications[i].layerName
                    IN /\ solverCalls[i].layerName = name
                       /\ modifications[i].textToUse = layerOverrides[name].fallbackText
                       /\ TextOf(json_data, LayerIndex(name)) = layerOverrides[name].fallbackText

\* the solver returned -1 for a primary text and a fallback text that
\* differs from it was recorded and written
C5_Witness ==
    /\ pc = "done"
    /\ \E i \in 1..Len(modifications) :
          /\ solverCalls[i].returned = NoFit
          /\ solverCalls[i].text = Xs(6)
          /\ modifications[i].textToUse = Xs(2)
          /\ TextOf(json_data, LayerIndex(modifications[i].layerName)) = Xs(2)

\* C6: with one override entry, for a layer whose new text width is smaller
\* than its original width by more than 0.1, every X of the layer's
\* animated position keyframes (X given with one decimal) keeps its value.
C6_NarrowerKeepsX ==
    (pc = "done" /\ Len(file.entries) = 1)
        => \A i \in 1..Len(modifications) :
              LET k == LayerIndex(modifications[i].layerName)
              IN (/\ k # 0
                  /\ modifications[i].newTextWidth
                        < modifications[i].originalTextWidth - Tenth)
                    => \A j \in 1..Len(layers[k].xs) :
                          layers[k].xs[j] % Tenth = 0
                             => XOf(json_data, k, j) = layers[k].xs[j]

\* what the file has written for an entry: sizes both positive and
\* maxSize <= minSize; no number negative and the sizes in order
SizesInvalid(e) == e.minSize > 0 /\ e.maxSize > 0 /\ e.maxSize <= e.minSize
WellFormed(e) ==
    e.minSize >= 0 /\ e.maxSize >= 0 /\ e.textBoxWidth >= 0 /\ ~SizesInvalid(e)

\* C10: every entry of the map has maxSize > minSize when both are positive;
\* a layer whose entries in the file all have maxSize <= minSize (both
\* positive) is not in the map and has no modification; a well-formed entry
\* after an invalid one is in the map with its sizes (the last entry of a
\* name counts).
C10_InvalidDropped ==
    pc = "done"
        => /\ \A n \in DOMAIN layerOverrides :
                 (layerOverrides[n].minSize > 0 /\ layerOverrides[n].maxSize > 0)
                    => layerOverrides[n].maxSize > layerOverrides[n].minSize
           /\ \A i \in 1..Len(file.entries) :
                 SizesInvalid(file.entries[i])
                    => /\ (\A j \in 1..Len(file.entries) :
                              file.entries[j].name = file.entries[i].name
                                 => SizesInvalid(file.entries[j]))
                          => /\ file.entries[i].name \notin DOMAIN layerOverrides
                             /\ \A m \in 1..Len(modifications) :
                                   modifications[m].layerName # file.entries[i].name
                       /\ \A j \in i + 1..Len(file.entries) :
                             (/\ WellFormed(file.entries[j])
                              /\ \A h \in j + 1..Len(file.entries) :
                                    file.entries[h].name # file.entries[j].name)
                                => /\ file.entries[j].name \in DOMAIN layerOverrides
                                   /\ layerOverrides[file.entries[j].name].minSize
                                         = file.entries[j].minSize
                                   /\ layerOverrides[file.entries[j].name].maxSize
                                         = file.entries[j].maxSize

\* an entry with minSize 20 and maxSize 10 for layer A, followed by an
\* entry for layer B that was parsed and applied
C10_Witness ==
    /\ pc = "done"
    /\ Len(file.entries) = 2
    /\ file.entries[1].minSize = Pt(20) /\ file.entries[1].maxSize = Pt(10)
    /\ file.entries[1].name = "A" /\ file.entries[2].name = "B"
    /\ DOMAIN layerOverrides = {"B"}
    /\ Len(modifications) = 1
    /\ modifications[1].layerName = "B"
    /\ json_data # original

\* an entry of the file with a number written with a minus sign
HasNegative(e) == e.minSize < 0 \/ e.maxSize < 0 \/ e.textBoxWidth < 0

\* C11: a layer whose only entry in the override file has minSize, maxSize
\* or textBoxWidth written as a negative number is absent from the map
\* returned by parseLayerOverrides.
C11_NegativeDropped ==
    pc = "done"
        => \A i \in 1..Len(file.entries) :
              (/\ HasNegative(file.entries[i])
               /\ \A j \in 1..Len(file.entries) :
                     j # i => file.entries[j].name # file.entries[i].name)
                 => file.entries[i].name \notin DOMAIN layerOverrides

\* C21: the mutations of one call are applied in reverse order of the
\* position of their layers in the document: of two modifications, the one
\* the second pass applies first (the later one of the vector) is for the
\* layer that comes later in the document.
C21_ReverseDocumentOrder ==
    pc = "done"
        => \A i, j \in 1..Len(modifications) :
              i < j => LayerIndex(modifications[i].layerName)
                          < LayerIndex(modifications[j].layerName)

\* the fallback text of modification i overflows the padded target width
\* at minSize
FallbackOverflows(i) ==
    /\ solverCalls[i].returned = NoFit
    /\ measureTextWidth(layerOverrides[modifications[i].layerName].minSize,
                        layerOverrides[modifications[i].layerName].fallbackText, mode)
          > solverCalls[i].paddedTargetWidth

\* C23: when the solver returned -1 and the fallback text measured at
\* minSize is wider than the padded target width, the recorded size is
\* minSize and the recorded text is the fallback text, and the solver was
\* called once for the layer.
C23_OverflowAtMinSize ==
    pc = "done"
        => /\ Len(solverCalls) = Len(modifications)
           /\ \A i \in 1..Len(modifications) :
                 FallbackOverflows(i)
                    => /\ modifications[i].optimalSize
                             = layerOverrides[modifications[i].layerName].minSize
                       /\ modifications[i].textToUse
                             = layerOverrides[modifications[i].layerName].fallbackText

\* a fallback text of two glyphs was recorded at minSize 20 although it is
\* wider there than the padded target width
C23_Witness ==
    /\ pc = "done"
    /\ \E i \in 1..Len(modifications) :
          /\ FallbackOverflows(i)
          /\ modifications[i].textToUse = Xs(2)
          /\ modifications[i].optimalSize = Pt(20)
          /\ modifications[i].newTextWidth > solverCalls[i].paddedTargetWidth

----------------------------------------------------------------------------
(* Properties of the image overrides, checked under SpecImages *)

\* where the asset with the id starts in the document; 0 without it
AssetIndex(doc, id) ==
    First({i \in 1..(Len(doc) - 2) : IsStr(doc[i], "id") /\ IsStr(doc[i + 2], id)})

\* the characters of the string value of key in the asset with the id
AssetValue(doc, id, key) ==
    LET at == FindStr(doc, key, AssetIndex(doc, id))
        closing == FindCh(doc, QT, at + 3)
    IN [j \in 1..(closing - at - 3) |-> doc[at + 2 + j].s]

\* C12: when no file opens at the override path, parseImageLayers returns
\* the empty map, parseLayerOverrides returns the empty map, and
\* processLayerOverrides returns the document as it was given, token for
\* token, with no modification planned.
C12_MissingFile ==
    /\ (pc = "parsed" /\ ~file.isOpen) => imageLayers = <<>>
    /\ (pc = "done" /\ ~file.isOpen)
          => /\ layerOverrides = <<>>
             /\ modifications = <<>>
             /\ json_data = original

\* the call has returned for a path where nothing opens, the caller's file
\* holding an image override for an asset of the document
C12_Witness ==
    /\ pc = "done"
    /\ ~file.isOpen
    /\ file.images # <<>>
    /\ AssetIndex(original, file.images[1].id) # 0

\* an image override that gives a directory and no file name
DirectoryOnly(cfg) == cfg.filePath # <<>> /\ cfg.fileName = <<>>

\* C13: for an image override with a directory and no file name, for an
\* asset id the document has, after processLayerOverrides the asset's "u"
\* is the override's directory (as written, or with a separator at its
\* end) and its "p" is the file name the document had before.
C13_DirectoryOnly ==
    (pc = "done" /\ file.isOpen)
        => \A id \in DOMAIN parseImageLayers(file) :
              (/\ DirectoryOnly(parseImageLayers(file)[id])
               /\ AssetIndex(original, id) # 0)
                 => /\ AssetValue(json_data, id, "u")
                          \in {parseImageLayers(file)[id].filePath,
                               WithSeparator(parseImageLayers(file)[id].filePath)}
                    /\ AssetValue(json_data, id, "p") = AssetValue(original, id, "p")

\* the file an override names: its file name under its directory, the
\* directory taken from the working directory unless it is absolute
ImagePathOf(cfg) ==
    (IF cfg.filePath # <<>> /\ cfg.filePath[1] = Slash THEN cfg.filePath
     ELSE Cwd \o <<Slash>> \o cfg.filePath)
    \o <<Slash>> \o cfg.fileName

\* what the claim asks of an entry
Acceptable(cfg) ==
    /\ cfg.filePath # <<>> \/ cfg.fileName # <<>>
    /\ ~HasPrefix(cfg.filePath, Http)
    /\ ~HasPrefix(cfg.filePath, Https)
    /\ cfg.fileName # <<>> => Names(ImagePathOf(cfg)) \in RegularFiles

\* C14: every entry of the map returned by parseImageLayers has a filePath
\* or a fileName, has no filePath that starts with http:// or https://, and
\* with a fileName names a regular file that exists; an entry of the file
\* that fails one of these is not stored, and the last entry of an asset id
\* that meets them all is the one the map holds, whatever came before it.
C14_ImageEntriesValid ==
    pc = "parsed"
        => /\ \A id \in DOMAIN imageLayers : Acceptable(imageLayers[id])
           /\ file.isOpen
                 => \A i \in 1..Len(file.images) :
                       IF /\ Acceptable(file.images[i])
                          /\ \A j \in (i + 1)..Len(file.images) :
                                file.images[j].id = file.images[i].id
                                   => ~Acceptable(file.images[j])
                       THEN /\ file.images[i].id \in DOMAIN imageLayers
                            /\ imageLayers[file.images[i].id]
                                  = [filePath |-> file.images[i].filePath,
                                     fileName |-> file.images[i].fileName]
                       ELSE (\A j \in 1..Len(file.images) :
                                file.images[j].id = file.images[i].id
                                   => ~Acceptable(file.images[j]))
                            => file.images[i].id \notin DOMAIN imageLayers

\* a file whose first entry has a URL for its directory and whose second
\* entry, for another asset, names a file that exists: only the second is
\* in the map
C14_Witness ==
    /\ pc = "parsed"
    /\ Len(file.images) = 2
    /\ HasPrefix(file.images[1].filePath, Http)
    /\ file.images[2].fileName # <<>>
    /\ DOMAIN imageLayers = {file.images[2].id}
    /\ file.images[2].id # file.images[1].id

----------------------------------------------------------------------------
(* Properties of the solver's loops, checked under SpecSearchFair *)

\* C15: every call of calculateOptimalFontSize returns; the upward loop
\* makes at most 10 probes and has made exactly 10 when the call returns;
\* the downward loop makes at most 15 probes, has made 15 when it returns
\* with max - min still 0.1 or more, and makes no probe after one that left
\* max - min below 0.1; the step by step result is the function's result.
C15_Terminates ==
    /\ <>(pc = "done")
    /\ [](/\ search.kind = "up" => search.probes <= UpIterations
          /\ search.kind = "down" => search.probes <= DownIterations
          /\ (pc = "done" /\ search.kind = "up") => search.probes = UpIterations
          /\ (pc = "done" /\ search.kind = "down" /\ search.probes < DownIterations)
                => (search.max - search.min) < Tenth
          /\ pc = "done"
                => optimalSize = calculateOptimalFontSize(fontInfo, config, text,
                                                          targetWidth, mode))
    /\ [][(/\ search.kind = "down"
           /\ search.probes >= 1
           /\ (search.max - search.min) < Tenth)
             => search'.probes = search.probes]_vars

\* a downward search that returned after all of its 15 probes, the interval
\* still 0.1 wide or more
C15_Witness ==
    /\ pc = "done"
    /\ search.kind = "down"
    /\ search.probes = DownIterations
    /\ ~((search.max - search.min) < Tenth)

----------------------------------------------------------------------------
(* Properties of the extractor, checked under SpecProcess *)

\* C16: for a text layer whose style has no "sz", the FontInfo the
\* extractor returns has textBoxWidth 0, and the solver call that
\* processLayerOverrides makes for an override without a textBoxWidth of
\* its own has the padded animation width as its target.
C16_NoBoxWidth ==
    pc = "done"
        => \A k \in 1..Len(solverCalls) :
              (/\ LayerIndex(solverCalls[k].layerName) # 0
               /\ layers[LayerIndex(solverCalls[k].layerName)].ty = 5
               /\ layers[LayerIndex(solverCalls[k].layerName)].sz = 0
               /\ layerOverrides[solverCalls[k].layerName].textBoxWidth = 0)
                 => /\ \A garbage \in Garbage :
                          extractFontInfoFromJson(original, solverCalls[k].layerName,
                                                  garbage).textBoxWidth = 0
                    /\ solverCalls[k].paddedTargetWidth
                          = PaddedTargetWidth(AnimationWidth(original), DefaultTextPadding)

\* C17: for an override whose name is the name of no layer of the document,
\* or of a layer whose type is not 5, extractFontInfoFromJson returns a
\* FontInfo with an empty name and processLayerOverrides records no
\* modification under that name, whatever the other layers are.
C17_NoSuchTextLayer ==
    pc = "done"
        => \A name \in DOMAIN layerOverrides :
              (LayerIndex(name) = 0 \/ layers[LayerIndex(name)].ty # 5)
                 => /\ \A garbage \in Garbage :
                          extractFontInfoFromJson(original, name, garbage).name = ""
                    /\ \A k \in 1..Len(modifications) :
                          modifications[k].layerName # name

----------------------------------------------------------------------------
(* Properties of the normalizations, checked under SpecNormalize *)

\* C18: normalizeLottieTextNewlines applied twice to a document gives what
\* it gives applied once, and so does the normalization that
\* parseLayerOverrides applies to an override value.
C18_Idempotent ==
    /\ pc = "normalized twice" => json_data = normalizeLottieTextNewlines(original)
    /\ pc = "parsed twice" => text = NormalizeValue(original)

\* a document with an escape sequence of U+0003 that the first application
\* has rewritten, after the second application
C18_Witness ==
    /\ pc = "normalized twice"
    /\ \E i \in 1..Len(original) : HasAt(original, EscapedETX, i)
    /\ json_data # original

\* C24: for every raw string, the normalization that extractFontInfoFromJson
\* applies to the text of a layer gives what the normalization of
\* parseLayerOverrides gives on an override value of the same characters.
C24_SameNormalization ==
    pc = "extracted" => text = NormalizeValue(original)

----------------------------------------------------------------------------
(* Properties of the renderer and of the command line, checked under       *)
(* SpecRender and SpecMain *)

AllFrames(r) == 0 .. r.num_frames - 1

\* C19: renderFrames returns 1 whenever at least one frame failed to be
\* rendered, encoded or written (failed_frames > 0), and returns 0 only when
\* all num_frames frames were output.
C19_FailureReturnsOne ==
    (pc = "done" /\ render.returned)
        => /\ render.failed_frames > 0 => render.result = 1
           /\ render.result = 0 => render.output = AllFrames(render)

\* parseArguments returned from the iteration of its loop on --version
VersionReached(c) ==
    c.returned /\ c.i \in DOMAIN c.argv /\ c.argv[c.i] = "--version"

\* C20: when main exits after parseArguments came to --version among the
\* arguments, the version information is on stdout and the exit status is 0.
C20_VersionExitsZero ==
    (pc = "done" /\ cli.exited /\ VersionReached(cli))
        => /\ \E k \in DOMAIN cli.stdout : cli.stdout[k] = "lotio version"
           /\ cli.status = 0

Increasing(s) == \A i, j \in DOMAIN s : i < j => s[i] < s[j]

\* C25: in stream mode the frames written to stdout are in strictly
\* increasing frame-index order, so each index is written at most once, in
\* whatever order the workers buffered their frames.
C25_InOrder == render.stream_mode => Increasing(render.stdout)

\* the workers buffered their frames out of order and two frames at least
\* were written
C25_Witness ==
    /\ render.stream_mode
    /\ render.returned
    /\ ~Increasing(render.buffered)
    /\ Len(render.stdout) >= 2

\* C26: in stream mode renderFrames eventually returns when every thread
\* that can take a step is scheduled.
C26_StreamReturns == render.stream_mode => <>render.returned

\* the frames the workers have not processed yet
Pending(r) ==
    UNION {{r.thread_frames[t][k] : k \in DOMAIN r.thread_frames[t]} : t \in Threads}

\* C27: a frame the writer reported as not rendered is neither a frame a
\* worker has still to process nor a frame a worker marked ready.
C27_NoGivingUp ==
    \A f \in render.skipped : f \notin Pending(render) /\ f \notin render.ready

\* C28: when renderFrames returns after its threads ran, completed_frames +
\* failed_frames = num_frames and failed_frames is the number of the frames
\* that were not output.
C28_CountedOnce ==
    (render.returned /\ render.started)
        => /\ render.completed_frames + render.failed_frames = render.num_frames
           /\ render.failed_frames = Cardinality(AllFrames(render) \ render.output)

----------------------------------------------------------------------------
(* Properties of the WASM interface, checked under SpecWasm *)

RenderCalls == {"lotio_get_info", "lotio_render_frame", "lotio_render_frame_png"}

\* C30: lotio_get_info, lotio_render_frame and lotio_render_frame_png return
\* non-zero whenever the most recent lotio_init did not return 0: before the
\* first lotio_init, after a lotio_init that returned non-zero, and after
\* lotio_cleanup.
C30_NeedsInit ==
    (wasm.last.call \in RenderCalls /\ wasm.init # 0) => wasm.last.result # 0

----------------------------------------------------------------------------
(* Properties of the mutation and the extraction together, checked under   *)
(* SpecRoundTrip *)

\* the extractor returns a FontInfo with a font name, whatever the
\* uninitialized fields hold
ExtractorReads(json, layerName) ==
    \A garbage \in Garbage : extractFontInfoFromJson(json, layerName, garbage).name # ""

\* index of the quote that closes the text of the style object at loc
TextCloseQuote(json, loc) ==
    CHOOSE i \in loc.open..loc.close :
        /\ IsCh(json[i], QT)
        /\ \A j \in i + 1..loc.close : ~IsCh(json[j], QT)

\* after differs from before only in the number of the field "s" and the
\* characters between the quotes of the field "t" of the style object at loc
OnlySizeAndText(before, after, loc) ==
    LET tail == Len(before) - TextCloseQuote(before, loc)
    IN /\ Len(after) >= loc.open + 10 + tail
       /\ SubSeq(after, 1, loc.open + 2) = SubSeq(before, 1, loc.open + 2)
       /\ after[loc.open + 3].k = "num"
       /\ SubSeq(after, loc.open + 4, loc.open + 10)
             = SubSeq(before, loc.open + 4, loc.open + 10)
       /\ SubSeq(after, Len(after) - tail, Len(after))
             = SubSeq(before, Len(before) - tail, Len(before))

\* C22: whenever extractFontInfoFromJson returns a non-empty FontInfo for a
\* document and a layer name, modifyTextLayerInJson locates the text style
\* object the extractor read and overwrites its size and its text only, also
\* for a layer name that is a regex metacharacter.
C22_SameObject ==
    (pc = "modified" /\ ExtractorReads(original, argLayerName))
        => /\ MutatorLocate(original, argLayerName) = ExtractorLocate(original, argLayerName)
           /\ OnlySizeAndText(original, json_data, ExtractorLocate(original, argLayerName))

\* C29: after modifyTextLayerInJson on a text layer the extractor reads the
\* new text with its line breaks normalized and the new size rounded to one
\* decimal, for every text; the same mutation applied a second time leaves
\* the document as the first left it.
C29_RoundTrip ==
    (LayerIndex(argLayerName) # 0 /\ layers[LayerIndex(argLayerName)].ty = 5)
        => /\ pc = "read" => /\ fontInfo.text = MarkersToCR(text, 1)
                             /\ fontInfo.size = Round1(argNewSize)
           /\ pc = "modified twice"
                 => json_data = modifyTextLayerInJson(original, argLayerName, text, argNewSize)

====
